---- MODULE Spec2Model ----
(***************************************************************************)
(* Model of the Copilot Money LevelDB/protobuf decoder                     *)
(* (copilot_money_mcp/core/decoder.py) and of the caching query layer      *)
(* built on it (copilot_money_mcp/core/database.py).                       *)
(*                                                                         *)
(* Byte buffers are sequences of integers 0..255.  Python's 0-based        *)
(* offsets are kept everywhere; At and Slice translate to the 1-based      *)
(* sequences of TLA+.  An Optional value is a sequence of length 0 (None)  *)
(* or 1 (the value).  A str is the sequence of its code points.  A float   *)
(* that went through round(val, 2) is the integer number of hundredths.    *)
(***************************************************************************)
EXTENDS Integers, Sequences, FiniteSets, TLC

\* ------------------------------------------------------------------------
\* Bounds of the model
\* ------------------------------------------------------------------------
MaxFiles == 2
MaxDecodes == 2
MaxVarintLen == 3
MaxStringGap == 50
MaxDoubleGap == 12
MaxBoolGap == 21
MaxTail == 2
\* transactions of the pool a cached list is drawn from
MaxCached == 4

\* ------------------------------------------------------------------------
\* Program constants
\* ------------------------------------------------------------------------
TxnRadius == 1500
AccRadius == 1000
StringWindow == 50
MaxStrLen == 100
DoubleWindow == 20
BoolWindow == 20
AmountCeiling == 10000000
AmountValueOffset == 8
BalanceValueOffset == 15

\* ------------------------------------------------------------------------
\* Python values
\* ------------------------------------------------------------------------
None == <<>>
Some(x) == <<x>>
Min(a, b) == IF a < b THEN a ELSE b
Max(a, b) == IF a > b THEN a ELSE b

\* data[i], 0-based
At(data, i) == data[i + 1]

\* data[a:b] for 0 <= a, 0 <= b (Python clamps both ends to the buffer)
Slice(data, a, b) ==
    LET lo == Min(a, Len(data))
        hi == Min(b, Len(data))
    IN  IF hi <= lo THEN <<>> ELSE SubSeq(data, lo + 1, hi)

\* does pat occur in data at 0-based offset i
MatchAt(data, pat, i) ==
    \/ pat = <<>>
    \/ /\ data[i + 1] = pat[1]
       /\ \A j \in 2..Len(pat) : data[i + j] = pat[j]

\* bytes.find(pat, start): lowest offset >= start where pat occurs, else -1
Find(data, pat, start) ==
    LET range == start..(Len(data) - Len(pat))
    IN  IF \E i \in range : MatchAt(data, pat, i)
        THEN CHOOSE i \in range :
               /\ MatchAt(data, pat, i)
               /\ \A k \in start..(i - 1) : ~MatchAt(data, pat, k)
        ELSE -1

\* pat in data
Contains(data, pat) == Find(data, pat, 0) # -1

\* ------------------------------------------------------------------------
\* Literal byte strings of the decoder
\* ------------------------------------------------------------------------
B ==
    [amount |-> <<97, 109, 111, 117, 110, 116>>,
     original_name |-> <<111, 114, 105, 103, 105, 110, 97, 108, 95, 110, 97, 109, 101>>,
     name |-> <<110, 97, 109, 101>>,
     original_date |-> <<111, 114, 105, 103, 105, 110, 97, 108, 95, 100, 97, 116, 101>>,
     category_id |-> <<99, 97, 116, 101, 103, 111, 114, 121, 95, 105, 100>>,
     account_id |-> <<97, 99, 99, 111, 117, 110, 116, 95, 105, 100>>,
     transaction_id |-> <<116, 114, 97, 110, 115, 97, 99, 116, 105, 111, 110, 95, 105, 100>>,
     iso_currency_code |-> <<105, 115, 111, 95, 99, 117, 114, 114, 101, 110, 99, 121, 95, 99, 111, 100, 101>>,
     pending |-> <<112, 101, 110, 100, 105, 110, 103>>,
     city |-> <<99, 105, 116, 121>>,
     region |-> <<114, 101, 103, 105, 111, 110>>,
     accounts_path |-> <<47, 97, 99, 99, 111, 117, 110, 116, 115, 47>>,
     current_balance |-> <<99, 117, 114, 114, 101, 110, 116, 95, 98, 97, 108, 97, 110, 99, 101>>,
     official_name |-> <<111, 102, 102, 105, 99, 105, 97, 108, 95, 110, 97, 109, 101>>,
     type |-> <<116, 121, 112, 101>>,
     subtype |-> <<115, 117, 98, 116, 121, 112, 101>>,
     mask |-> <<109, 97, 115, 107>>,
     institution_name |-> <<105, 110, 115, 116, 105, 116, 117, 116, 105, 111, 110, 95, 110, 97, 109, 101>>]

\* b"\x0a" + length byte + key: a map key as the decoder spells it
Key(name) == <<10, Len(name)>> \o name

A ==
    [amount |-> Key(B.amount),
     name |-> Key(B.name),
     city |-> Key(B.city),
     region |-> Key(B.region),
     type |-> Key(B.type),
     mask |-> Key(B.mask)]
StringTag == <<138, 1>>
DoubleTag == 25
BoolTag == 8

\* ------------------------------------------------------------------------
\* decode_varint
\* ------------------------------------------------------------------------
\* faulty variant of the loop: groups of 8 bits instead of 7
RECURSIVE varint_loop_shift8(_, _, _, _)
varint_loop_shift8(data, pos, result, shift) ==
    IF pos < Len(data)
    THEN LET byte == At(data, pos)
             r2 == result + (byte % 128) * (2 ^ shift)
         IN  IF byte < 128
             THEN <<r2, pos + 1>>
             ELSE varint_loop_shift8(data, pos + 1, r2, shift + 8)
    ELSE <<result, pos>>

\* faulty variant of the loop: a buffer that ends inside a varint gives 0
\* instead of what was accumulated
RECURSIVE varint_loop_drop(_, _, _, _)
varint_loop_drop(data, pos, result, shift) ==
    IF pos < Len(data)
    THEN LET byte == At(data, pos)
             r2 == result + (byte % 128) * (2 ^ shift)
         IN  IF byte < 128
             THEN <<r2, pos + 1>>
             ELSE varint_loop_drop(data, pos + 1, r2, shift + 7)
    ELSE <<0, pos>>

RECURSIVE varint_loop(_, _, _, _)
varint_loop(data, pos, result, shift) ==
    IF pos < Len(data)
    THEN LET byte == At(data, pos)
             \* result |= (byte & 0x7F) << shift: the bits at shift..shift+6
             \* of result are still clear, so the OR is an addition
             r2 == result + (byte % 128) * (2 ^ shift)
         IN  IF byte < 128
             THEN <<r2, pos + 1>>
             ELSE varint_loop(data, pos + 1, r2, shift + 7)
    ELSE <<result, pos>>

decode_varint(data, pos) == varint_loop(data, pos, 0, 0)

\* ------------------------------------------------------------------------
\* bytes.decode("utf-8") and str.isprintable
\* ------------------------------------------------------------------------
IsCont(b) == b >= 128 /\ b <= 191

\* the decoded code points, or <<-1>> when the bytes are not valid UTF-8
RECURSIVE utf8_decode(_, _, _)
utf8_decode(bs, i, acc) ==
    IF i > Len(bs) THEN acc
    ELSE LET b0 == bs[i]
             has(n) == i + n <= Len(bs)
             c(n) == bs[i + n]
         IN  IF b0 < 128 THEN utf8_decode(bs, i + 1, Append(acc, b0))
             ELSE IF b0 >= 194 /\ b0 <= 223
             THEN IF has(1) /\ IsCont(c(1))
                  THEN utf8_decode(bs, i + 2,
                         Append(acc, (b0 - 192) * 64 + (c(1) - 128)))
                  ELSE <<-1>>
             ELSE IF b0 >= 224 /\ b0 <= 239
             THEN IF /\ has(2) /\ IsCont(c(1)) /\ IsCont(c(2))
                     /\ (b0 = 224 => c(1) >= 160)
                     /\ (b0 = 237 => c(1) <= 159)
                  THEN utf8_decode(bs, i + 3,
                         Append(acc, (b0 - 224) * 4096 + (c(1) - 128) * 64
                                     + (c(2) - 128)))
                  ELSE <<-1>>
             ELSE IF b0 >= 240 /\ b0 <= 244
             THEN IF /\ has(3) /\ IsCont(c(1)) /\ IsCont(c(2)) /\ IsCont(c(3))
                     /\ (b0 = 240 => c(1) >= 144)
                     /\ (b0 = 244 => c(1) <= 143)
                  THEN utf8_decode(bs, i + 4,
                         Append(acc, (b0 - 240) * 262144 + (c(1) - 128) * 4096
                                     + (c(2) - 128) * 64 + (c(3) - 128)))
                  ELSE <<-1>>
             ELSE <<-1>>

Utf8Invalid == <<-1>>

\* str.isprintable for one code point.  Exact for the code points below
\* U+0100; above them only the separators and format characters listed are
\* taken as non-printable.
IsPrintableCp(cp) ==
    IF cp < 128 THEN cp >= 32 /\ cp <= 126
    ELSE IF cp < 256 THEN cp >= 161 /\ cp # 173
    ELSE cp \notin {5760, 8192, 8193, 8194, 8195, 8196, 8197, 8198, 8199, 8200,
                    8201, 8202, 8203, 8204, 8205, 8206, 8207, 8232, 8233, 8239,
                    8287, 12288, 65279}

IsPrintable(s) == \A k \in 1..Len(s) : IsPrintableCp(s[k])

\* ------------------------------------------------------------------------
\* extract_string_value
\* ------------------------------------------------------------------------
\* the value of the candidate at offset i of the window `after`, or None
\* lines 63-65: the decoded value when it decoded and is printable
StringValue(value) ==
    IF value # Utf8Invalid /\ IsPrintable(value) THEN Some(value) ELSE None

\* lines 59-67: what the pass at offset i of the window `after` returns
\* (None: the loop goes on)
StringCandidate(after, i) ==
    IF Slice(after, i, i + 2) = StringTag
    THEN LET str_len == At(after, i + 2)
         IN  IF 0 < str_len /\ str_len < MaxStrLen
             THEN StringValue(utf8_decode(Slice(after, i + 3, i + 3 + str_len), 1, <<>>))
             ELSE None
    ELSE None

\* faulty variant of the loop: the first tag found ends the scan, whether
\* its candidate passes or not
RECURSIVE string_loop_stop(_, _)
string_loop_stop(after, i) ==
    IF i >= Len(after) - 3 THEN None
    ELSE IF Slice(after, i, i + 2) = StringTag THEN StringCandidate(after, i)
    ELSE string_loop_stop(after, i + 1)

\* line 58: for i in range(len(after) - 3), from i on
RECURSIVE string_loop(_, _)
string_loop(after, i) ==
    IF i >= Len(after) - 3 THEN None
    ELSE LET value == StringCandidate(after, i)
         IN  IF value # None THEN value ELSE string_loop(after, i + 1)

extract_string_value(data, field_name) ==
    LET idx == Find(data, field_name, 0)
    IN  IF idx = -1 THEN None
        ELSE LET search_start == idx + Len(field_name)
                 search_end == Min(Len(data), search_start + StringWindow)
             IN  string_loop(Slice(data, search_start, search_end), 0)

\* ------------------------------------------------------------------------
\* struct.unpack("<d", ...) followed by the range test and round(val, 2)
\* ------------------------------------------------------------------------
\* value of a little-endian bit sequence
RECURSIVE BitsValue(_)
BitsValue(bits) ==
    IF bits = <<>> THEN 0 ELSE bits[1] + 2 * BitsValue(Tail(bits))

\* biased exponent of the IEEE-754 double in the 8 bytes b
DoubleExponent(b) == (b[8] % 128) * 16 + (b[7] \div 16)

DoubleNegative(b) == b[8] >= 128

\* bit i of the 53-bit significand M (the implicit bit included)
SignificandBit(b, i) ==
    IF i < 48 THEN (b[(i \div 8) + 1] \div (2 ^ (i % 8))) % 2
    ELSE IF i < 52 THEN ((b[7] % 16) \div (2 ^ (i - 48))) % 2
    ELSE IF i = 52 THEN (IF DoubleExponent(b) > 0 THEN 1 ELSE 0)
    ELSE 0

\* |val| = M / 2^k
DoubleScale(b) ==
    1075 - (IF DoubleExponent(b) > 0 THEN DoubleExponent(b) ELSE 1)

\* floor(|val|), meaningful when DoubleScale(b) >= 29 (|val| < 2^24)
DoubleIntPart(b) ==
    LET k == DoubleScale(b)
    IN  IF k > 52 THEN 0
        ELSE BitsValue([j \in 1..(53 - k) |-> SignificandBit(b, k + j - 1)])

\* faulty variant of the range test: a magnitude of exactly the ceiling
\* passes
DoubleInRangeInclusive(b) ==
    /\ DoubleExponent(b) # 2047
    /\ DoubleScale(b) >= 29
    /\ DoubleIntPart(b) <= AmountCeiling

\* -10_000_000 < val < 10_000_000 (false for infinities and NaN)
DoubleInRange(b) ==
    /\ DoubleExponent(b) # 2047
    /\ DoubleScale(b) >= 29
    /\ DoubleIntPart(b) < AmountCeiling

\* the 15-bit limbs of 100 * M, least significant first
HundredM(b) ==
    LET m(l) == BitsValue([j \in 1..15 |-> SignificandBit(b, 15 * l + j - 1)])
        r0 == 100 * m(0)
        r1 == 100 * m(1) + (r0 \div 32768)
        r2 == 100 * m(2) + (r1 \div 32768)
        r3 == 100 * m(3) + (r2 \div 32768)
    IN  <<r0 % 32768, r1 % 32768, r2 % 32768, r3 % 32768, r3 \div 32768>>

\* n / 2^k rounded to the nearest integer, ties to even, for n in 15-bit
\* limbs, least significant first
RoundHalfEven(n, k) ==
    LET nbit(j) == IF j > 74 THEN 0
                   ELSE (n[(j \div 15) + 1] \div (2 ^ (j % 15))) % 2
        q == IF k > 62 THEN 0
             ELSE BitsValue([j \in 1..31 |-> nbit(k + j - 1)])
        half == k <= 62 /\ nbit(k - 1) = 1
        sticky == \E j \in 0..Min(k - 2, 74) : nbit(j) = 1
    IN  q + (IF half /\ (sticky \/ q % 2 = 1) THEN 1 ELSE 0)

\* round(val, 2) in hundredths, for a val in range: 100 * M / 2^k rounded,
\* with the sign of val
RoundedHundredths(b) ==
    IF DoubleNegative(b)
    THEN 0 - RoundHalfEven(HundredM(b), DoubleScale(b))
    ELSE RoundHalfEven(HundredM(b), DoubleScale(b))

\* ------------------------------------------------------------------------
\* extract_double_value
\* ------------------------------------------------------------------------
\* lines 88-94: what the pass at offset i of chunk returns (None: the
\* loop goes on)
DoubleCandidate(chunk, i) ==
    IF At(chunk, i) = DoubleTag
    THEN LET raw == Slice(chunk, i + 1, i + 9)
         IN  IF DoubleInRange(raw) THEN Some(RoundedHundredths(raw)) ELSE None
    ELSE None

\* line 87: for i in range(len(chunk) - 9), from i on
RECURSIVE double_loop(_, _)
double_loop(chunk, i) ==
    IF i >= Len(chunk) - 9 THEN None
    ELSE LET val == DoubleCandidate(chunk, i)
         IN  IF val # None THEN val ELSE double_loop(chunk, i + 1)

extract_double_value(data, start_pos) ==
    double_loop(Slice(data, start_pos, start_pos + DoubleWindow), 0)

\* ------------------------------------------------------------------------
\* extract_boolean_value
\* ------------------------------------------------------------------------
extract_boolean_value(data, field_name) ==
    LET idx == Find(data, field_name, 0)
    IN  IF idx = -1 THEN None
        ELSE LET search_start == idx + Len(field_name)
                 search_end == Min(Len(data), search_start + BoolWindow)
                 after == Slice(data, search_start, search_end)
                 tags == {i \in 0..(Len(after) - 3) : At(after, i) = BoolTag}
             IN  IF tags = {} THEN None
                 ELSE Some(At(after,
                        (CHOOSE i \in tags : \A k \in tags : i <= k) + 1) # 0)

\* ------------------------------------------------------------------------
\* models/transaction.py, models/account.py
\* ------------------------------------------------------------------------
Truthy(opt) == opt # None /\ opt[1] # <<>>

\* "Unknown"
Unknown == <<85, 110, 107, 110, 111, 119, 110>>

\* \d of the pattern engine: the decimal digits (ASCII, and the Unicode
\* decimal digits of the scripts listed)
IsDigitCp(cp) ==
    \/ cp >= 48 /\ cp <= 57
    \/ cp >= 1632 /\ cp <= 1641
    \/ cp >= 1776 /\ cp <= 1785
    \/ cp >= 2406 /\ cp <= 2415
    \/ cp >= 65296 /\ cp <= 65305

\* faulty variant: the date field carries no pattern
DatePatternAny(s) == TRUE

\* Field(pattern=r"^\d{4}-\d{2}-\d{2}$")
DatePattern(s) ==
    /\ Len(s) = 10
    /\ \A k \in {1, 2, 3, 4, 6, 7, 9, 10} : IsDigitCp(s[k])
    /\ s[5] = 45
    /\ s[8] = 45

\* validate_amount_range, on hundredths
AmountValid(v) == ~((IF v < 0 THEN 0 - v ELSE v) > AmountCeiling * 100)

\* display_name of a Transaction or an Account
DisplayName(name, other) ==
    IF Truthy(name) THEN name[1]
    ELSE IF Truthy(other) THEN other[1]
    ELSE Unknown

\* Transaction(**kw): Some(record), or None when validation raises
Transaction(kw) ==
    IF DatePattern(kw.date) /\ AmountValid(kw.amount)
    THEN Some([transaction_id |-> kw.transaction_id, amount |-> kw.amount,
               date |-> kw.date, name |-> kw.name,
               original_name |-> kw.original_name,
               account_id |-> kw.account_id, category_id |-> kw.category_id,
               iso_currency_code |-> kw.iso_currency_code,
               pending |-> kw.pending, city |-> kw.city, region |-> kw.region,
               display_name |-> DisplayName(kw.name, kw.original_name)])
    ELSE None

\* Account(**kw): no validator can fail on what decode_accounts passes
Account(kw) ==
    Some([account_id |-> kw.account_id, name |-> kw.name,
          official_name |-> kw.official_name,
          account_type |-> kw.account_type, subtype |-> kw.subtype,
          mask |-> kw.mask, current_balance |-> kw.current_balance,
          institution_name |-> kw.institution_name,
          display_name |-> DisplayName(kw.name, kw.official_name)])

\* ------------------------------------------------------------------------
\* decode_transactions: the body of the while loop and the tail
\* ------------------------------------------------------------------------
\* faulty variant: the end of the window is not clamped to the buffer
RecordEndUnclamped(data, idx, radius) == idx + radius

\* record_start, record_end = max(0, idx - R), min(len(data), idx + R)
RecordStart(idx, radius) == Max(0, idx - radius)
RecordEnd(data, idx, radius) == Min(Len(data), idx + radius)

\* if b"amount" not in data or b"original_name" not in data: continue
TxnSignature(data) == Contains(data, B.amount) /\ Contains(data, B.original_name)

\* faulty variant: the cursor is left on the occurrence
NextSearchPosStay(idx) == idx

\* search_pos after an occurrence was found at idx
NextSearchPos(idx) == idx + 1

\* lines 168-177: the fields extracted from one record window
TxnFields(record) ==
    [name |-> extract_string_value(record, A.name),
     original_name |-> extract_string_value(record, B.original_name),
     date |-> extract_string_value(record, B.original_date),
     category_id |-> extract_string_value(record, B.category_id),
     account_id |-> extract_string_value(record, B.account_id),
     transaction_id |-> extract_string_value(record, B.transaction_id),
     iso_currency_code |-> extract_string_value(record, B.iso_currency_code),
     pending |-> extract_boolean_value(record, B.pending),
     city |-> extract_string_value(record, A.city),
     region |-> extract_string_value(record, A.region)]

\* faulty variant: the transaction id is not required of a candidate (a
\* placeholder is stored when none was extracted)
TxnCandidateNoId(f, amount) ==
    LET display_name == IF Truthy(f.name) THEN f.name ELSE f.original_name
    IN  IF Truthy(display_name) /\ Truthy(f.date)
        THEN Transaction([transaction_id |-> IF Truthy(f.transaction_id) THEN f.transaction_id[1] ELSE Unknown,
                          amount |-> amount, date |-> f.date[1],
                          name |-> f.name,
                          original_name |-> f.original_name,
                          account_id |-> f.account_id,
                          category_id |-> f.category_id,
                          iso_currency_code |-> f.iso_currency_code,
                          pending |-> f.pending, city |-> f.city,
                          region |-> f.region])
        ELSE None

\* lines 180-200: the candidate built from the fields: Some(txn) or None
TxnCandidate(f, amount) ==
    LET display_name == IF Truthy(f.name) THEN f.name ELSE f.original_name
    IN  IF Truthy(display_name) /\ Truthy(f.transaction_id) /\ Truthy(f.date)
        THEN Transaction([transaction_id |-> f.transaction_id[1],
                          amount |-> amount, date |-> f.date[1],
                          name |-> f.name,
                          original_name |-> f.original_name,
                          account_id |-> f.account_id,
                          category_id |-> f.category_id,
                          iso_currency_code |-> f.iso_currency_code,
                          pending |-> f.pending, city |-> f.city,
                          region |-> f.region])
        ELSE None

\* faulty variant: a candidate that yields no record empties the list
AppendedReset(items, built) ==
    IF built = None THEN <<>> ELSE Append(items, built[1])

\* transactions.append(txn), when a transaction was built
Appended(items, built) ==
    IF built = None THEN items ELSE Append(items, built[1])

\* lines 162-200: the window is carved and the candidate appended
TxnCarve(data, idx, transactions, amount) ==
    LET record_start == RecordStart(idx, TxnRadius)
        record_end == RecordEnd(data, idx, TxnRadius)
    IN  [carved |-> TRUE, record_start |-> record_start,
         record_end |-> record_end,
         items |-> Appended(transactions, TxnCandidate(TxnFields(Slice(data, record_start, record_end)), amount))]

\* lines 159-160: if amount is None or amount == 0: continue
TxnAmountTest(data, idx, transactions, amount) ==
    IF amount = None \/ amount[1] = 0
    THEN [carved |-> FALSE, record_start |-> 0, record_end |-> 0,
          items |-> transactions]
    ELSE TxnCarve(data, idx, transactions, amount[1])

\* one pass of the loop for an occurrence at idx: what is carved and appended
TxnIteration(data, idx, transactions) ==
    TxnAmountTest(data, idx, transactions, extract_double_value(data, idx + AmountValueOffset))

TxnKey(t) == <<t.display_name, t.amount, t.date>>

\* the seen/unique loop of decode_transactions: keep the first of every key
RECURSIVE DedupTxn(_, _, _)
DedupTxn(items, seen, unique) ==
    IF items = <<>> THEN unique
    ELSE LET key == TxnKey(Head(items))
         IN  IF key \notin seen
             THEN DedupTxn(Tail(items), seen \cup {key},
                           Append(unique, Head(items)))
             ELSE DedupTxn(Tail(items), seen, unique)

\* a < b for str
RECURSIVE StrLess(_, _)
StrLess(a, b) ==
    IF b = <<>> THEN FALSE
    ELSE IF a = <<>> THEN TRUE
    ELSE IF a[1] # b[1] THEN a[1] < b[1]
    ELSE StrLess(Tail(a), Tail(b))

\* faulty variant of the insertion: x goes before the items of its own
\* date (a sort that is not stable)
RECURSIVE InsertDescUnstable(_, _)
InsertDescUnstable(sorted, x) ==
    IF sorted = <<>> THEN <<x>>
    ELSE IF ~StrLess(x.date, Head(sorted).date)
         THEN <<x>> \o sorted
         ELSE <<Head(sorted)>> \o InsertDescUnstable(Tail(sorted), x)

\* list.sort(key=date, reverse=True): descending, and stable (items with
\* equal keys keep their order).  Insertion of x after every item whose
\* date is >= the date of x.
RECURSIVE InsertDesc(_, _)
InsertDesc(sorted, x) ==
    IF sorted = <<>> THEN <<x>>
    ELSE IF StrLess(Head(sorted).date, x.date)
         THEN <<x>> \o sorted
         ELSE <<Head(sorted)>> \o InsertDesc(Tail(sorted), x)

RECURSIVE SortByDateDesc(_, _)
SortByDateDesc(items, sorted) ==
    IF items = <<>> THEN sorted
    ELSE SortByDateDesc(Tail(items), InsertDesc(sorted, Head(items)))

\* faulty variant of the tail: the seen/unique loop left out
TxnTailNoDedup(transactions) == SortByDateDesc(transactions, <<>>)

\* faulty variant of the tail: the sort left out
TxnTailNoSort(transactions) == DedupTxn(transactions, {}, <<>>)

\* lines 202-214: deduplicate, sort, return
TxnTail(transactions) ==
    SortByDateDesc(DedupTxn(transactions, {}, <<>>), <<>>)

\* ------------------------------------------------------------------------
\* decode_accounts: the body of the while loop and the tail
\* ------------------------------------------------------------------------
AccSignature(data) == Contains(data, B.accounts_path)

\* lines 260-266: the fields extracted from one record window
AccFields(record) ==
    [name |-> extract_string_value(record, A.name),
     official_name |-> extract_string_value(record, B.official_name),
     account_type |-> extract_string_value(record, A.type),
     subtype |-> extract_string_value(record, B.subtype),
     mask |-> extract_string_value(record, A.mask),
     institution_name |-> extract_string_value(record, B.institution_name),
     account_id |-> extract_string_value(record, B.account_id)]

\* lines 268-283: the candidate built from the fields: Some(acc) or None
AccCandidate(f, balance) ==
    IF Truthy(f.account_id) /\ (Truthy(f.name) \/ Truthy(f.official_name))
    THEN Account([account_id |-> f.account_id[1], name |-> f.name,
                  official_name |-> f.official_name,
                  account_type |-> f.account_type, subtype |-> f.subtype,
                  mask |-> f.mask, current_balance |-> balance,
                  institution_name |-> f.institution_name])
    ELSE None

\* lines 257-283: if balance is None: continue; else the candidate
AccBalanceTest(record, accounts, balance) ==
    IF balance = None THEN accounts
    ELSE Appended(accounts, AccCandidate(AccFields(record), balance[1]))

\* lines 251-283, on the carved window
AccRecord(record, accounts) ==
    AccBalanceTest(record, accounts, extract_double_value(record, Find(record, B.current_balance, 0) + BalanceValueOffset))

AccIteration(data, idx, accounts) ==
    LET record_start == RecordStart(idx, AccRadius)
        record_end == RecordEnd(data, idx, AccRadius)
    IN  [carved |-> TRUE, record_start |-> record_start,
         record_end |-> record_end,
         items |-> AccRecord(Slice(data, record_start, record_end), accounts)]

AccKey(a) == <<a.display_name, a.mask>>

\* the seen/unique loop of decode_accounts
RECURSIVE DedupAcc(_, _, _)
DedupAcc(items, seen, unique) ==
    IF items = <<>> THEN unique
    ELSE LET key == AccKey(Head(items))
         IN  IF key \notin seen
             THEN DedupAcc(Tail(items), seen \cup {key},
                           Append(unique, Head(items)))
             ELSE DedupAcc(Tail(items), seen, unique)

\* faulty variant: the last-encountered Account of each key is kept
AccTailKeepLast(accounts) ==
    LET n == Len(accounts)
        r == DedupAcc([k \in 1..n |-> accounts[n + 1 - k]], {}, <<>>)
    IN  [k \in 1..Len(r) |-> r[Len(r) + 1 - k]]

\* lines 285-294: deduplicate, return (no sort)
AccTail(accounts) == DedupAcc(accounts, {}, <<>>)

\* ------------------------------------------------------------------------
\* core/database.py: the query operations over a cached collection
\* ------------------------------------------------------------------------
\* str.lower(), on the code points below U+0100
LowerCp(cp) ==
    IF cp >= 65 /\ cp <= 90 THEN cp + 32
    ELSE IF cp >= 192 /\ cp <= 222 /\ cp # 215 THEN cp + 32
    ELSE cp

Lower(s) == [k \in 1..Len(s) |-> LowerCp(s[k])]

\* a in b, for str
StrIn(a, b) == Find(b, a, 0) # -1

\* faulty variant: the date bounds are exclusive
get_transactions_exclusive(cached, a) ==
    LET r1 == IF Truthy(a.start_date)
              THEN SelectSeq(cached, LAMBDA t : StrLess(a.start_date[1], t.date))
              ELSE cached
        r2 == IF Truthy(a.end_date)
              THEN SelectSeq(r1, LAMBDA t : StrLess(t.date, a.end_date[1]))
              ELSE r1
    IN  Slice(r2, 0, a.limit)

\* get_transactions, lines 80-117, on the cached list
get_transactions(cached, a) ==
    LET r1 == IF Truthy(a.start_date)
              THEN SelectSeq(cached,
                     LAMBDA t : ~StrLess(t.date, a.start_date[1]))
              ELSE cached
        r2 == IF Truthy(a.end_date)
              THEN SelectSeq(r1, LAMBDA t : ~StrLess(a.end_date[1], t.date))
              ELSE r1
        r3 == IF Truthy(a.category)
              THEN SelectSeq(r2, LAMBDA t :
                     /\ Truthy(t.category_id)
                     /\ StrIn(Lower(a.category[1]), Lower(t.category_id[1])))
              ELSE r2
        r4 == IF Truthy(a.merchant)
              THEN SelectSeq(r3, LAMBDA t :
                     StrIn(Lower(a.merchant[1]), Lower(t.display_name)))
              ELSE r3
        r5 == IF Truthy(a.account_id)
              THEN SelectSeq(r4, LAMBDA t : t.account_id = a.account_id)
              ELSE r4
        r6 == IF a.min_amount # None
              THEN SelectSeq(r5, LAMBDA t : t.amount >= a.min_amount[1])
              ELSE r5
        r7 == IF a.max_amount # None
              THEN SelectSeq(r6, LAMBDA t : t.amount <= a.max_amount[1])
              ELSE r6
    IN  Slice(r7, 0, a.limit)

\* faulty variant: a category is listed every time it occurs
get_categories_every(cached) ==
    [k \in 1..Len(SelectSeq(cached, LAMBDA t : Truthy(t.category_id))) |->
        [category_id |-> SelectSeq(cached, LAMBDA t : Truthy(t.category_id))[k].category_id[1],
         name |-> SelectSeq(cached, LAMBDA t : Truthy(t.category_id))[k].category_id[1]]]

\* faulty variant: the limit cuts the cached list before the search
search_transactions_limit_first(cached, a) ==
    SelectSeq(Slice(cached, 0, a.limit), LAMBDA t :
                StrIn(Lower(a.query), Lower(t.display_name)))

\* search_transactions, lines 136-143
search_transactions(cached, a) ==
    Slice(SelectSeq(cached, LAMBDA t :
                      StrIn(Lower(a.query), Lower(t.display_name))),
          0, a.limit)

\* get_accounts, lines 160-171
get_accounts(cached, a) ==
    IF Truthy(a.account_type)
    THEN SelectSeq(cached, LAMBDA acc :
           /\ Truthy(acc.account_type)
           /\ StrIn(Lower(a.account_type[1]), Lower(acc.account_type[1])))
    ELSE cached

\* get_categories, lines 184-198
RECURSIVE categories_loop(_, _, _)
categories_loop(txns, seen_categories, unique_categories) ==
    IF txns = <<>> THEN unique_categories
    ELSE LET txn == Head(txns)
         IN  IF Truthy(txn.category_id) /\ txn.category_id[1] \notin seen_categories
             THEN categories_loop(Tail(txns),
                    seen_categories \cup {txn.category_id[1]},
                    Append(unique_categories,
                           [category_id |-> txn.category_id[1],
                            name |-> txn.category_id[1]]))
             ELSE categories_loop(Tail(txns), seen_categories,
                                  unique_categories)

get_categories(cached) == categories_loop(cached, {}, <<>>)

\* the strings of the documents (code points = bytes: all ASCII)
Text ==
    [Cafe |-> <<67, 97, 102, 101>>,
     CAFE12 |-> <<67, 65, 70, 69, 32, 49, 50>>,
     SHOP |-> <<83, 72, 79, 80>>,
     t1 |-> <<116, 49>>,
     t2 |-> <<116, 50>>,
     t3 |-> <<116, 51>>,
     t4 |-> <<116, 52>>,
     date_jan |-> <<50, 48, 50, 52, 45, 48, 49, 45, 49, 53>>,
     date_feb |-> <<50, 48, 50, 52, 45, 48, 50, 45, 48, 49>>,
     date_bad |-> <<50, 48, 50, 52, 45, 49, 45, 53>>,
     food |-> <<102, 111, 111, 100>>,
     Rent |-> <<82, 101, 110, 116>>,
     acc1 |-> <<97, 99, 99, 49>>,
     acc2 |-> <<97, 99, 99, 50>>,
     Checking |-> <<67, 104, 101, 99, 107, 105, 110, 103>>,
     Savings |-> <<83, 97, 118, 105, 110, 103, 115>>,
     depository |-> <<100, 101, 112, 111, 115, 105, 116, 111, 114, 121>>,
     m1234 |-> <<49, 50, 51, 52>>,
     m5678 |-> <<53, 54, 55, 56>>,
     shop_lower |-> <<115, 104, 111, 112>>,
     cafe_lower |-> <<99, 97, 102, 101>>,
     FOOD |-> <<70, 79, 79, 68>>,
     date_nyd |-> <<50, 48, 50, 52, 45, 48, 49, 45, 48, 49>>,
     date_nye |-> <<50, 48, 50, 51, 45, 49, 50, 45, 51, 49>>,
     Uncategorized |-> <<85, 110, 99, 97, 116, 101, 103, 111, 114, 105, 122, 101, 100>>]

\* IEEE-754 doubles, little-endian: 12.34, 5.0, 0.0, 250.75, -20.5, 1e8
Dbl ==
    [v12_34 |-> <<174, 71, 225, 122, 20, 174, 40, 64>>,
     v5_00 |-> <<0, 0, 0, 0, 0, 0, 20, 64>>,
     v0 |-> <<0, 0, 0, 0, 0, 0, 0, 0>>,
     v250_75 |-> <<0, 0, 0, 0, 0, 88, 111, 64>>,
     neg_20_50 |-> <<0, 0, 0, 0, 0, 128, 52, 192>>,
     v1e8 |-> <<0, 0, 0, 0, 132, 215, 151, 65>>]


\* ------------------------------------------------------------------------
\* Directory contents the model draws from
\* ------------------------------------------------------------------------

Pad(n) == [k \in 1..n |-> 0]
StrField(key, val) == Key(key) \o <<18, Len(val) + 3>> \o StringTag \o <<Len(val)>> \o val
OptStrField(key, opt) == IF opt = None THEN <<>> ELSE StrField(key, opt[1])
DblField(key, raw) == Key(key) \o <<18, 9, DoubleTag>> \o raw
BoolField(key, b) == Key(key) \o <<18, 2, BoolTag, b>>

\* one serialized transaction document, keys in sorted order
TxnBytes(raw, category, name, date, original_name, id) ==
    DblField(B.amount, raw) \o OptStrField(B.category_id, category)
    \o OptStrField(B.name, name) \o StrField(B.original_date, date)
    \o StrField(B.original_name, original_name) \o BoolField(B.pending, 0)
    \o OptStrField(B.transaction_id, id)

\* one serialized account document
AccBytes(id, raw, mask, name, type) ==
    StrField(B.account_id, id) \o DblField(B.current_balance, raw)
    \o StrField(B.mask, mask) \o StrField(B.name, name)
    \o StrField(B.type, type)

RecA == TxnBytes(Dbl.v12_34, Some(Text.food), Some(Text.Cafe), Text.date_jan, Text.CAFE12, Some(Text.t1))
RecA2 == TxnBytes(Dbl.v12_34, None, Some(Text.Cafe), Text.date_jan, Text.CAFE12, Some(Text.t2))
RecB == TxnBytes(Dbl.v5_00, Some(Text.food), None, Text.date_feb, Text.SHOP, Some(Text.t3))
RecBad == TxnBytes(Dbl.v12_34, None, None, Text.date_bad, Text.SHOP, Some(Text.t4))
RecC == TxnBytes(Dbl.neg_20_50, None, Some(Text.Rent), Text.date_feb, Text.Rent, Some(Text.t4))

LdbFile(data) == [ldb |-> TRUE, readable |-> TRUE, data |-> data]

\* the same logical record twice: two amount anchors, overlapping windows
FileA == LdbFile(RecA \o RecA)
\* a copy of record A under another id, an amount of zero, an implausible
\* amount, and record B, all inside one window; then an account document
\* without an account id
FileDup == LdbFile(RecA2 \o DblField(B.amount, Dbl.v0) \o DblField(B.amount, Dbl.v1e8) \o RecB \o B.accounts_path \o DblField(B.current_balance, Dbl.v250_75) \o StrField(B.mask, Text.m1234) \o StrField(B.name, Text.Checking))
\* documents further apart than the window radius: two transactions, then
\* the accounts (two documents of one account, and a second account)
FileBig == LdbFile(RecBad \o Pad(1600) \o RecB \o Pad(1600) \o B.accounts_path \o AccBytes(Text.acc1, Dbl.v250_75, Text.m1234, Text.Checking, Text.depository) \o AccBytes(Text.acc1, Dbl.v5_00, Text.m1234, Text.Checking, Text.depository) \o Pad(1100) \o AccBytes(Text.acc2, Dbl.neg_20_50, Text.m5678, Text.Savings, Text.depository))
FileUnreadable == [ldb |-> TRUE, readable |-> FALSE, data |-> RecC]
FileEmpty == LdbFile(<<>>)
\* not a table file: MANIFEST, LOCK, ...
FileManifest == [ldb |-> FALSE, readable |-> TRUE, data |-> RecC]
\* a table file of a transaction document without a transaction id and
\* one account document (the second account of FileBig, at another balance)
FileAcc == LdbFile(TxnBytes(Dbl.v5_00, None, None, Text.date_feb, Text.SHOP, None) \o B.accounts_path \o AccBytes(Text.acc2, Dbl.v12_34, Text.m5678, Text.Savings, Text.depository))

Fixtures == <<FileA, FileDup, FileBig, FileUnreadable, FileEmpty, FileManifest, FileAcc>>

\* the sequences of at most n distinct elements of S
RECURSIVE ListingsUpTo(_, _)
ListingsUpTo(S, n) ==
    IF n = 0 THEN {<<>>}
    ELSE LET shorter == ListingsUpTo(S, n - 1)
         IN  shorter \cup {Append(q, x) : q \in shorter, x \in S}

Distinct(q) == \A i, j \in 1..Len(q) : i # j => q[i] # q[j]

\* the directory listings: every sequence of at most MaxFiles distinct file
\* names (a file name is a position in Fixtures)
Directories == {q \in ListingsUpTo(1..Len(Fixtures), MaxFiles) : Distinct(q)}

\* the file a name of the listing stands for
FileOf(name) == Fixtures[name]

NoArgs == [start_date |-> None, end_date |-> None, category |-> None, merchant |-> None, account_id |-> None, min_amount |-> None, max_amount |-> None, limit |-> 1000, query |-> <<>>, account_type |-> None]

\* the calls the model makes
Queries ==
    { [op |-> "get_transactions", args |-> NoArgs],
      [op |-> "search_transactions", args |-> [NoArgs EXCEPT !.query = Text.shop_lower, !.limit = 50]],
      [op |-> "get_categories", args |-> NoArgs],
      [op |-> "get_accounts", args |-> NoArgs] }

\* ------------------------------------------------------------------------
\* State
\* ------------------------------------------------------------------------
VARIABLES
    dirExists,           \* db_path.exists()
    files,               \* the directory listing (file names), in enumeration order
    cache_transactions,  \* CopilotDatabase._transactions
    cache_accounts,      \* CopilotDatabase._accounts
    pc,                  \* where each caller is
    call,                \* the operation and arguments of each caller
    frame,               \* the locals of the decode a caller is running
    ret,                 \* what the last call of each caller gave back
    decodes,             \* completed decodes of each kind (history)
    input,               \* the arguments of a call of a pure function
    output               \* what that call returned

dbvars == <<dirExists, files, cache_transactions, cache_accounts, pc, call, frame, ret, decodes>>
vars == <<dbvars, input, output>>

Callers == {1, 2}

NoFrame == [ldb_files |-> <<>>, fi |-> 0, search_pos |-> 0, idx |-> -1, carved |-> FALSE, record_start |-> 0, record_end |-> 0, items |-> <<>>, globbed |-> FALSE, opened |-> 0, result |-> <<>>]

NoRet == [status |-> "none", value |-> <<>>]
Ok(v) == [status |-> "ok", value |-> v]
Raised(e) == [status |-> "error", value |-> e]

TxnOps == {"get_transactions", "search_transactions", "get_categories"}

\* list(db_path.glob("*.ldb")): the paths (positions in the listing) of the
\* table files, in enumeration order
RECURSIVE GlobFrom(_, _)
GlobFrom(listing, k) ==
    IF k > Len(listing) THEN <<>>
    ELSE IF FileOf(listing[k]).ldb THEN <<k>> \o GlobFrom(listing, k + 1)
    ELSE GlobFrom(listing, k + 1)

Glob(listing) == GlobFrom(listing, 1)

InitCommon ==
    /\ cache_transactions = None
    /\ cache_accounts = None
    /\ pc = [c \in Callers |-> "idle"]
    /\ call = [c \in Callers |-> [op |-> "none", args |-> NoArgs]]
    /\ frame = [c \in Callers |-> NoFrame]
    /\ ret = [c \in Callers |-> NoRet]
    /\ decodes = [txn |-> 0, acc |-> 0]

NoInput == [fn |-> "none"]

Init ==
    /\ dirExists \in BOOLEAN
    /\ files \in (IF dirExists THEN Directories ELSE {<<>>})
    /\ InitCommon
    /\ input = NoInput
    /\ output = None

\* ------------------------------------------------------------------------
\* CopilotDatabase: entering a query operation (the "is None" test)
\* ------------------------------------------------------------------------
\* faulty variant: the "is None" test always finds the cache unpopulated
CacheOfUnpopulated(op) == None

CacheOf(op) == IF op \in TxnOps THEN cache_transactions ELSE cache_accounts

Call(c) ==
    /\ pc[c] = "idle"
    /\ \E q \in Queries :
         /\ call' = [call EXCEPT ![c] = q]
         /\ pc' = [pc EXCEPT ![c] =
                     IF CacheOf(q.op) # None THEN "respond"
                     ELSE IF q.op \in TxnOps THEN "txn_enter"
                     ELSE "acc_enter"]
    /\ frame' = [frame EXCEPT ![c] = NoFrame]
    /\ ret' = [ret EXCEPT ![c] = NoRet]
    /\ UNCHANGED <<dirExists, files, cache_transactions, cache_accounts, decodes, input, output>>

\* data, the buffer of the file a scan is in (data = f.read() at fi); the
\* bytes never change, so the frame keeps the file's position instead
Data(c) == FileOf(files[frame[c].ldb_files[frame[c].fi + 1]]).data

\* ------------------------------------------------------------------------
\* decode_transactions
\* ------------------------------------------------------------------------
\* faulty variant of the entry: the directory is enumerated before the
\* existence test
TxnEnterGlobFirst(c) ==
    /\ pc[c] = "txn_enter"
    /\ decodes.txn < MaxDecodes
    /\ frame' = [frame EXCEPT ![c].ldb_files = Glob(files), ![c].globbed = TRUE]
    /\ IF ~dirExists
       THEN /\ pc' = [pc EXCEPT ![c] = "idle"]
            /\ ret' = [ret EXCEPT ![c] = Raised("FileNotFoundError")]
       ELSE /\ pc' = [pc EXCEPT ![c] = "txn_files"]
            /\ UNCHANGED ret
    /\ UNCHANGED <<dirExists, files, cache_transactions, cache_accounts, call, decodes, input, output>>

\* faulty variant: a decode that finds no directory gives an empty list,
\* which the database stores
TxnEnterStoresEmpty(c) ==
    /\ pc[c] = "txn_enter"
    /\ decodes.txn < MaxDecodes
    /\ IF ~dirExists
       THEN /\ pc' = [pc EXCEPT ![c] = "respond"]
            /\ cache_transactions' = Some(<<>>)
            /\ UNCHANGED <<frame, ret>>
       ELSE /\ pc' = [pc EXCEPT ![c] = "txn_files"]
            /\ frame' = [frame EXCEPT ![c].ldb_files = Glob(files),
                                      ![c].globbed = TRUE]
            /\ UNCHANGED <<ret, cache_transactions>>
    /\ UNCHANGED <<dirExists, files, cache_accounts, call, decodes, input, output>>

\* lines 133-138: the existence test, then the glob
TxnEnter(c) ==
    /\ pc[c] = "txn_enter"
    /\ decodes.txn < MaxDecodes
    /\ IF ~dirExists
       THEN /\ pc' = [pc EXCEPT ![c] = "idle"]
            /\ ret' = [ret EXCEPT ![c] = Raised("FileNotFoundError")]
            /\ UNCHANGED frame
       ELSE /\ pc' = [pc EXCEPT ![c] = "txn_files"]
            /\ frame' = [frame EXCEPT ![c].ldb_files = Glob(files),
                                      ![c].globbed = TRUE]
            /\ UNCHANGED ret
    /\ UNCHANGED <<dirExists, files, cache_transactions, cache_accounts, call, decodes, input, output>>

\* lines 140-149: the next file is opened and read, its signature tested
TxnOpen(c) ==
    /\ pc[c] = "txn_files"
    /\ frame[c].fi < Len(frame[c].ldb_files)
    /\ LET f == FileOf(files[frame[c].ldb_files[frame[c].fi + 1]])
       IN  IF ~f.readable
           THEN /\ pc' = [pc EXCEPT ![c] = "idle"]
                /\ ret' = [ret EXCEPT ![c] = Raised("OSError")]
                /\ frame' = [frame EXCEPT ![c].opened = @ + 1]
           ELSE IF ~TxnSignature(f.data)
           THEN /\ frame' = [frame EXCEPT ![c].opened = @ + 1,
                                          ![c].fi = @ + 1]
                /\ UNCHANGED <<pc, ret>>
           ELSE /\ frame' = [frame EXCEPT ![c].opened = @ + 1,
                                          ![c].search_pos = 0]
                /\ pc' = [pc EXCEPT ![c] = "txn_scan"]
                /\ UNCHANGED ret
    /\ UNCHANGED <<dirExists, files, cache_transactions, cache_accounts, call, decodes, input, output>>

\* the locals after a pass that found an occurrence at idx and did `it`
Pass(fr, idx, it) ==
    [fr EXCEPT !.idx = idx, !.search_pos = NextSearchPos(idx),
               !.carved = it.carved, !.record_start = it.record_start,
               !.record_end = it.record_end, !.items = it.items]

\* lines 150-200: one pass of the while loop
TxnScan(c) ==
    /\ pc[c] = "txn_scan"
    /\ LET fr == frame[c]
           data == Data(c)
           idx == Find(data, A.amount, fr.search_pos)
       IN  IF idx = -1
           THEN /\ frame' = [frame EXCEPT ![c].fi = @ + 1, ![c].idx = -1]
                /\ pc' = [pc EXCEPT ![c] = "txn_files"]
           ELSE /\ frame' = [frame EXCEPT ![c] = Pass(fr, idx, TxnIteration(data, idx, fr.items))]
                /\ UNCHANGED pc
    /\ UNCHANGED <<dirExists, files, cache_transactions, cache_accounts, call, ret, decodes, input, output>>

\* lines 202-214: after the last file
TxnFinish(c) ==
    /\ pc[c] = "txn_files"
    /\ frame[c].fi = Len(frame[c].ldb_files)
    /\ frame' = [frame EXCEPT ![c].result = TxnTail(frame[c].items)]
    /\ pc' = [pc EXCEPT ![c] = "store"]
    /\ decodes' = [decodes EXCEPT !.txn = @ + 1]
    /\ UNCHANGED <<dirExists, files, cache_transactions, cache_accounts, call, ret, input, output>>

\* ------------------------------------------------------------------------
\* decode_accounts
\* ------------------------------------------------------------------------
AccEnter(c) ==
    /\ pc[c] = "acc_enter"
    /\ decodes.acc < MaxDecodes
    /\ IF ~dirExists
       THEN /\ pc' = [pc EXCEPT ![c] = "idle"]
            /\ ret' = [ret EXCEPT ![c] = Raised("FileNotFoundError")]
            /\ UNCHANGED frame
       ELSE /\ pc' = [pc EXCEPT ![c] = "acc_files"]
            /\ frame' = [frame EXCEPT ![c].ldb_files = Glob(files),
                                      ![c].globbed = TRUE]
            /\ UNCHANGED ret
    /\ UNCHANGED <<dirExists, files, cache_transactions, cache_accounts, call, decodes, input, output>>

AccOpen(c) ==
    /\ pc[c] = "acc_files"
    /\ frame[c].fi < Len(frame[c].ldb_files)
    /\ LET f == FileOf(files[frame[c].ldb_files[frame[c].fi + 1]])
       IN  IF ~f.readable
           THEN /\ pc' = [pc EXCEPT ![c] = "idle"]
                /\ ret' = [ret EXCEPT ![c] = Raised("OSError")]
                /\ frame' = [frame EXCEPT ![c].opened = @ + 1]
           ELSE IF ~AccSignature(f.data)
           THEN /\ frame' = [frame EXCEPT ![c].opened = @ + 1,
                                          ![c].fi = @ + 1]
                /\ UNCHANGED <<pc, ret>>
           ELSE /\ frame' = [frame EXCEPT ![c].opened = @ + 1,
                                          ![c].search_pos = 0]
                /\ pc' = [pc EXCEPT ![c] = "acc_scan"]
                /\ UNCHANGED ret
    /\ UNCHANGED <<dirExists, files, cache_transactions, cache_accounts, call, decodes, input, output>>

AccScan(c) ==
    /\ pc[c] = "acc_scan"
    /\ LET fr == frame[c]
           data == Data(c)
           idx == Find(data, B.current_balance, fr.search_pos)
       IN  IF idx = -1
           THEN /\ frame' = [frame EXCEPT ![c].fi = @ + 1, ![c].idx = -1]
                /\ pc' = [pc EXCEPT ![c] = "acc_files"]
           ELSE /\ frame' = [frame EXCEPT ![c] = Pass(fr, idx, AccIteration(data, idx, fr.items))]
                /\ UNCHANGED pc
    /\ UNCHANGED <<dirExists, files, cache_transactions, cache_accounts, call, ret, decodes, input, output>>

AccFinish(c) ==
    /\ pc[c] = "acc_files"
    /\ frame[c].fi = Len(frame[c].ldb_files)
    /\ frame' = [frame EXCEPT ![c].result = AccTail(frame[c].items)]
    /\ pc' = [pc EXCEPT ![c] = "store"]
    /\ decodes' = [decodes EXCEPT !.acc = @ + 1]
    /\ UNCHANGED <<dirExists, files, cache_transactions, cache_accounts, call, ret, input, output>>

\* ------------------------------------------------------------------------
\* decode_transactions as a function of the directory listing
\* ------------------------------------------------------------------------
\* lines 150-200: the while loop over one file's buffer, from search_pos on
RECURSIVE TxnWhile(_, _, _)
TxnWhile(data, search_pos, transactions) ==
    IF Find(data, A.amount, search_pos) = -1 THEN transactions
    ELSE TxnWhile(data, NextSearchPos(Find(data, A.amount, search_pos)),
                  TxnIteration(data, Find(data, A.amount, search_pos), transactions).items)

\* lines 140-214 for a listing whose table files can all be read: the loop
\* over the files still to visit, then the tail
RECURSIVE decode_transactions(_, _, _)
decode_transactions(listing, ldb_files, transactions) ==
    IF ldb_files = <<>> THEN TxnTail(transactions)
    ELSE decode_transactions(listing, Tail(ldb_files),
           IF TxnSignature(FileOf(listing[Head(ldb_files)]).data)
           THEN TxnWhile(FileOf(listing[Head(ldb_files)]).data, 0, transactions)
           ELSE transactions)

\* ------------------------------------------------------------------------
\* CopilotDatabase: storing the decoded list, answering from the cache
\* ------------------------------------------------------------------------
\* self._transactions = decode_transactions(...) / self._accounts = ...
Store(c) ==
    /\ pc[c] = "store"
    /\ IF call[c].op \in TxnOps
       THEN /\ cache_transactions' = Some(frame[c].result)
            /\ UNCHANGED cache_accounts
       ELSE /\ cache_accounts' = Some(frame[c].result)
            /\ UNCHANGED cache_transactions
    /\ pc' = [pc EXCEPT ![c] = "respond"]
    /\ UNCHANGED <<dirExists, files, call, frame, ret, decodes, input, output>>

\* what the operation returns, computed from the cached list
Answer(q) ==
    IF q.op = "get_transactions" THEN get_transactions(cache_transactions[1], q.args)
    ELSE IF q.op = "search_transactions" THEN search_transactions(cache_transactions[1], q.args)
    ELSE IF q.op = "get_categories" THEN get_categories(cache_transactions[1])
    ELSE get_accounts(cache_accounts[1], q.args)

\* faulty variant: the filtered list is written back to the cache
RespondStoresAnswer(c) ==
    /\ pc[c] = "respond"
    /\ ret' = [ret EXCEPT ![c] = Ok(Answer(call[c]))]
    /\ pc' = [pc EXCEPT ![c] = "idle"]
    /\ IF call[c].op \in {"get_transactions", "search_transactions"}
       THEN /\ cache_transactions' = Some(Answer(call[c]))
            /\ UNCHANGED cache_accounts
       ELSE UNCHANGED <<cache_transactions, cache_accounts>>
    /\ UNCHANGED <<dirExists, files, call, frame, decodes, input, output>>

Respond(c) ==
    /\ pc[c] = "respond"
    /\ ret' = [ret EXCEPT ![c] = Ok(Answer(call[c]))]
    /\ pc' = [pc EXCEPT ![c] = "idle"]
    /\ UNCHANGED <<dirExists, files, cache_transactions, cache_accounts, call, frame, decodes, input, output>>

Step(c) ==
    \/ Call(c)
    \/ TxnEnter(c)
    \/ TxnOpen(c)
    \/ TxnScan(c)
    \/ TxnFinish(c)
    \/ AccEnter(c)
    \/ AccOpen(c)
    \/ AccScan(c)
    \/ AccFinish(c)
    \/ Store(c)
    \/ Respond(c)

\* one caller: the single-threaded use the server makes of the database
Next == Step(1)

Spec == Init /\ [][Next]_vars

\* ------------------------------------------------------------------------
\* Two callers on one CopilotDatabase (a concurrent host): the steps of the
\* two calls interleave; nothing in database.py orders them
\* ------------------------------------------------------------------------
ConcDirectories == {<<1>>, <<7>>}

InitConc ==
    /\ dirExists = TRUE
    /\ files \in ConcDirectories
    /\ InitCommon
    /\ input = NoInput
    /\ output = None

NextConc == \E c \in Callers : Step(c)

SpecConc == InitConc /\ [][NextConc]_vars

\* ------------------------------------------------------------------------
\* decode_varint called on its own
\* ------------------------------------------------------------------------
\* bytes the buffers are made of: both high-bit classes, the extremes
VarintBytes == {0, 1, 22, 127, 128, 150, 255}

\* the base-128 encoding of n >= 0, least significant group first
RECURSIVE EncodeVarint(_)
EncodeVarint(n) ==
    IF n < 128 THEN <<n>> ELSE <<128 + (n % 128)>> \o EncodeVarint(n \div 128)

VarintNumbers == {0, 1, 127, 128, 150, 300, 16383, 16384, 2097151}

Buffers(n) == UNION {[1..k -> VarintBytes] : k \in 0..n}

InitVarint ==
    /\ dirExists = FALSE
    /\ files = <<>>
    /\ InitCommon
    /\ output = None
    /\ \/ \E data \in Buffers(MaxVarintLen) : \E pos \in 0..(Len(data) + 1) :
            input = [fn |-> "decode_varint", data |-> data, pos |-> pos]
       \/ \E n \in VarintNumbers :
            input = [fn |-> "round_trip", n |-> n, data |-> EncodeVarint(n), pos |-> 0]

CallVarint ==
    /\ input.fn \in {"decode_varint", "round_trip"}
    /\ output = None
    /\ output' = Some(decode_varint(input.data, input.pos))
    /\ UNCHANGED <<dbvars, input>>

NextVarint == CallVarint

SpecVarint == InitVarint /\ [][NextVarint]_vars


\* ------------------------------------------------------------------------
\* extract_string_value, extract_double_value, extract_boolean_value called
\* on their own
\* ------------------------------------------------------------------------
\* the calls: a field name (or a start offset), filler bytes, one or two
\* tagged values of every kind the function tells apart, and a tail, so that
\* the tags lie at every offset of the window and at every distance below
\* MaxTail from the end of the buffer
ExtractInputs ==
    LET lead == <<0, 0>>
        hello == <<104, 101, 108, 108, 111>>
        strings ==
          {StringTag \o <<5>> \o hello,
           StringTag \o <<0>> \o hello,
           StringTag \o <<100>> \o hello,
           StringTag \o <<200>> \o hello,
           StringTag \o <<2, 255, 254>>,
           StringTag \o <<2, 65, 10>>,
           StringTag \o <<2, 195, 169>>,
           StringTag \o <<10, 97, 98, 99, 100>>}
        second_strings ==
          {<<>>, StringTag \o <<2, 111, 107>>, B.name \o StringTag \o <<5>> \o hello}
        doubles ==
          {Dbl.v12_34, Dbl.v1e8, Dbl.v0, Dbl.neg_20_50,
           <<0, 0, 0, 0, 208, 18, 99, 65>>,
           <<217, 206, 247, 255, 207, 18, 99, 65>>,
           <<0, 0, 0, 0, 208, 18, 99, 193>>,
           <<0, 0, 0, 224, 207, 18, 99, 65>>,
           <<0, 0, 0, 0, 0, 0, 248, 127>>,
           <<0, 0, 0, 0, 0, 0, 240, 127>>}
        second_doubles == {<<>>, <<DoubleTag>> \o Dbl.v5_00}
    IN  {[fn |-> "extract_string_value", data |-> lead \o B.name \o Pad(g) \o c \o d \o Pad(t), field_name |-> B.name] : g \in 0..MaxStringGap, c \in strings, d \in second_strings, t \in 0..MaxTail}
        \cup {[fn |-> "extract_string_value", data |-> lead \o c, field_name |-> B.name] : c \in strings}
        \cup {[fn |-> "extract_double_value", data |-> lead \o Pad(g) \o <<DoubleTag>> \o c \o d \o Pad(t), start_pos |-> Len(lead)] : g \in 0..MaxDoubleGap, c \in doubles, d \in second_doubles, t \in 0..MaxTail}
        \cup {[fn |-> "extract_boolean_value", data |-> lead \o B.pending \o Pad(g) \o <<BoolTag, b>> \o Pad(t), field_name |-> B.pending] : g \in 0..MaxBoolGap, b \in {0, 1, BoolTag}, t \in 0..MaxTail}
        \cup {[fn |-> "extract_boolean_value", data |-> lead \o Pad(g), field_name |-> B.pending] : g \in 0..MaxTail}

InitExtract ==
    /\ dirExists = FALSE
    /\ files = <<>>
    /\ InitCommon
    /\ output = None
    /\ input \in ExtractInputs

CallString ==
    /\ input.fn = "extract_string_value"
    /\ output = None
    /\ output' = Some(extract_string_value(input.data, input.field_name))
    /\ UNCHANGED <<dbvars, input>>

CallDouble ==
    /\ input.fn = "extract_double_value"
    /\ output = None
    /\ output' = Some(extract_double_value(input.data, input.start_pos))
    /\ UNCHANGED <<dbvars, input>>

CallBoolean ==
    /\ input.fn = "extract_boolean_value"
    /\ output = None
    /\ output' = Some(extract_boolean_value(input.data, input.field_name))
    /\ UNCHANGED <<dbvars, input>>

NextExtract == CallString \/ CallDouble \/ CallBoolean

SpecExtract == InitExtract /\ [][NextExtract]_vars


\* ------------------------------------------------------------------------
\* tools/tools.py: the tool handlers, on what the database query returned
\* ------------------------------------------------------------------------
\* limit=10000 of the query get_spending_by_category makes
SpendingLimit == 10000

\* cat = txn.category_id or "Uncategorized"
CategoryOf(txn) ==
    IF Truthy(txn.category_id) THEN txn.category_id[1] ELSE Text.Uncategorized

\* the sum of values[lo..hi]
RECURSIVE Sum(_, _, _)
Sum(values, lo, hi) ==
    IF lo > hi THEN 0
    ELSE IF lo = hi THEN values[lo]
    ELSE Sum(values, lo, (lo + hi) \div 2) + Sum(values, (lo + hi) \div 2 + 1, hi)

\* category_spending[cat], category_counts[cat] after the loop of lines
\* 158-163 over the transactions of the category, and the position at which
\* cat entered the dictionaries
CategoryEntry(mine, cat, first) ==
    [category |-> cat, total_spending |-> Sum([k \in 1..Len(mine) |-> mine[k].amount], 1, Len(mine)), transaction_count |-> Len(mine), first |-> first]

CategoryEntries(expenses) ==
    { CategoryEntry(SelectSeq(expenses, LAMBDA t : CategoryOf(t) = cat), cat, CHOOSE k \in 1..Len(expenses) : CategoryOf(expenses[k]) = cat /\ \A j \in 1..(k - 1) : CategoryOf(expenses[j]) # cat) : cat \in {CategoryOf(expenses[k]) : k \in 1..Len(expenses)} }

\* lines 166-174: the list in dictionary order, then
\* sort(key=total_spending, reverse=True), which is stable
RECURSIVE SortedCategories(_, _)
SortedCategories(entries, out) ==
    IF entries = {} THEN out
    ELSE LET e == CHOOSE x \in entries : \A y \in entries : x.total_spending > y.total_spending \/ (x.total_spending = y.total_spending /\ x.first <= y.first)
         IN  SortedCategories(entries \ {e}, Append(out, [category |-> e.category, total_spending |-> e.total_spending, transaction_count |-> e.transaction_count]))

\* lines 176-184
SpendingResult(categories, a) ==
    [period |-> [start_date |-> a.start_date, end_date |-> a.end_date],
     total_spending |-> Sum([k \in 1..Len(categories) |-> categories[k].total_spending], 1, Len(categories)),
     category_count |-> Len(categories),
     categories |-> categories]

\* lines 154-184, on the transactions the query returned
spending_aggregate(transactions, a) ==
    SpendingResult(SortedCategories(CategoryEntries(SelectSeq(transactions, LAMBDA t : t.amount > 0)), <<>>), a)

\* the arguments of the query of lines 147-152
SpendingQuery(a) ==
    [NoArgs EXCEPT !.start_date = a.start_date, !.end_date = a.end_date, !.min_amount = a.min_amount, !.limit = SpendingLimit]

\* get_spending_by_category (without period), on the cached list
get_spending_by_category(cached, a) ==
    spending_aggregate(get_transactions(cached, SpendingQuery(a)), a)

\* get_account_balance, lines 199-215, on the accounts the query returned
get_account_balance(accounts, account_id) ==
    LET found == SelectSeq(accounts, LAMBDA acc : acc.account_id = account_id)
    IN  IF found = <<>> THEN [kind |-> "error", value |-> "Account not found"]
        ELSE [kind |-> "result",
              value |-> [account_id |-> found[1].account_id, name |-> found[1].display_name,
                         account_type |-> found[1].account_type,
                         current_balance |-> found[1].current_balance,
                         available_balance |-> None, mask |-> found[1].mask,
                         institution_name |-> found[1].institution_name]]

\* ------------------------------------------------------------------------
\* server.py: call_tool over one CopilotDatabase
\* ------------------------------------------------------------------------
\* faulty variant: only the existence of the path is tested
is_available_exists == dirExists

\* CopilotDatabase.is_available
is_available == dirExists /\ Glob(files) # <<>>

\* the tool calls the model makes: every known tool, and an unknown one
ToolCalls ==
    { [name |-> "get_transactions", arguments |-> [NoArgs EXCEPT !.limit = 100]],
      [name |-> "search_transactions", arguments |-> [NoArgs EXCEPT !.query = Text.cafe_lower, !.limit = 50]],
      [name |-> "get_accounts", arguments |-> NoArgs],
      [name |-> "get_spending_by_category", arguments |-> [NoArgs EXCEPT !.min_amount = Some(0)]],
      [name |-> "get_account_balance", arguments |-> [NoArgs EXCEPT !.account_id = Some(Text.acc2)]],
      [name |-> "get_account_balance", arguments |-> [NoArgs EXCEPT !.account_id = Some(Text.acc1)]],
      [name |-> "list_everything", arguments |-> NoArgs] }

\* the database query a tool handler makes
DbQuery(t) ==
    IF t.name \in {"get_transactions", "search_transactions"} THEN [op |-> t.name, args |-> t.arguments]
    ELSE IF t.name = "get_spending_by_category" THEN [op |-> "get_transactions", args |-> SpendingQuery(t.arguments)]
    ELSE [op |-> "get_accounts", args |-> [NoArgs EXCEPT !.account_type = t.arguments.account_type]]

\* what call_tool answers once the handler's query has returned or raised
ToolAnswer(name, arguments, r) ==
    IF r.status = "error" THEN [kind |-> "exception", value |-> r.value]
    ELSE IF name \in {"get_transactions", "search_transactions"}
    THEN [kind |-> "result", value |-> [count |-> Len(r.value), transactions |-> r.value]]
    ELSE IF name = "get_accounts"
    THEN [kind |-> "result", value |-> [count |-> Len(r.value), total_balance |-> Sum([k \in 1..Len(r.value) |-> r.value[k].current_balance], 1, Len(r.value)), accounts |-> r.value]]
    ELSE IF name = "get_spending_by_category"
    THEN [kind |-> "result", value |-> spending_aggregate(r.value, arguments)]
    ELSE get_account_balance(r.value, arguments.account_id[1])

\* small directories: none, a manifest only, and table files with
\* transactions and accounts
SmallDirectories == {<<>>, <<6>>, <<1>>, <<6, 7>>, <<1, 7>>}

\* the directory comes into existence (the application creates its data)
DirectoryCreated ==
    /\ ~dirExists
    /\ dirExists' = TRUE
    /\ files' \in SmallDirectories
    /\ UNCHANGED <<cache_transactions, cache_accounts, pc, call, frame, ret, decodes, input, output>>

\* lines 57-85: the availability test, then the routing to a handler
call_tool ==
    /\ pc[1] = "idle"
    /\ input.fn = "call_tool" => output # None
    /\ \E t \in ToolCalls :
         /\ input' = [fn |-> "call_tool", name |-> t.name, arguments |-> t.arguments, available |-> is_available]
         /\ IF ~is_available
            THEN /\ output' = Some([kind |-> "not_available", value |-> "Database not available"])
                 /\ UNCHANGED <<pc, call, frame, ret>>
            ELSE IF t.name \notin {"get_transactions", "search_transactions", "get_accounts", "get_spending_by_category", "get_account_balance"}
            THEN /\ output' = Some([kind |-> "unknown", value |-> "Unknown tool"])
                 /\ UNCHANGED <<pc, call, frame, ret>>
            ELSE /\ output' = None
                 /\ call' = [call EXCEPT ![1] = DbQuery(t)]
                 /\ pc' = [pc EXCEPT ![1] =
                             IF CacheOf(DbQuery(t).op) # None THEN "respond"
                             ELSE IF DbQuery(t).op \in TxnOps THEN "txn_enter"
                             ELSE "acc_enter"]
                 /\ frame' = [frame EXCEPT ![1] = NoFrame]
                 /\ ret' = [ret EXCEPT ![1] = NoRet]
    /\ UNCHANGED <<dirExists, files, cache_transactions, cache_accounts, decodes>>

\* lines 87-107: the handler's result (or its exception) becomes the answer
tool_return ==
    /\ input.fn = "call_tool"
    /\ output = None
    /\ pc[1] = "idle"
    /\ ret[1].status # "none"
    /\ output' = Some(ToolAnswer(input.name, input.arguments, ret[1]))
    /\ UNCHANGED <<dbvars, input>>

InitServer ==
    /\ dirExists \in BOOLEAN
    /\ files \in (IF dirExists THEN SmallDirectories ELSE {<<>>})
    /\ InitCommon
    /\ input = NoInput
    /\ output = None

NextServer ==
    \/ call_tool
    \/ TxnEnter(1)
    \/ TxnOpen(1)
    \/ TxnScan(1)
    \/ TxnFinish(1)
    \/ AccEnter(1)
    \/ AccOpen(1)
    \/ AccScan(1)
    \/ AccFinish(1)
    \/ Store(1)
    \/ Respond(1)
    \/ tool_return
    \/ DirectoryCreated

\* every query comes through the server's call_tool
SpecServer == InitServer /\ [][NextServer]_vars

\* direct use of a CopilotDatabase whose directory may not exist yet
NextRetry == Step(1) \/ DirectoryCreated

SpecRetry == InitServer /\ [][NextRetry]_vars

\* ------------------------------------------------------------------------
\* The query operations as functions of a populated cache
\* ------------------------------------------------------------------------
\* a Transaction as decode_transactions builds one
CachedTxn(id, amount, date, name, original_name, category, account) ==
    Transaction([transaction_id |-> id, amount |-> amount, date |-> date, name |-> name, original_name |-> original_name, account_id |-> account, category_id |-> category, iso_currency_code |-> None, pending |-> Some(FALSE), city |-> None, region |-> None])[1]

\* transactions in date-descending order, with distinct dedup keys: an
\* expense, an uncategorized expense, an income of the same date, an expense
\* known by its original name only, and an expense of the year before
CachedPool ==
    << CachedTxn(Text.t1, 1234, Text.date_feb, Some(Text.Cafe), Some(Text.CAFE12), Some(Text.food), Some(Text.acc1)),
       CachedTxn(Text.t2, 500, Text.date_jan, Some(Text.SHOP), Some(Text.SHOP), None, Some(Text.acc2)),
       CachedTxn(Text.t3, -2050, Text.date_jan, Some(Text.Rent), None, Some(Text.Rent), Some(Text.acc1)),
       CachedTxn(Text.t4, 1234, Text.date_nyd, None, Some(Text.CAFE12), Some(Text.food), None),
       CachedTxn(Text.acc1, 500, Text.date_nye, Some(Text.Cafe), None, Some(Text.FOOD), Some(Text.acc1)),
       CachedTxn(Text.acc2, 1, Text.date_nye, Some(Text.SHOP), None, None, Some(Text.acc2)) >>

\* the cached list a number stands for: 0 .. 2^MaxCached - 1 select the
\* transactions of the pool by their bits; 2^MaxCached is a list of one more
\* expense than the aggregation query asks for, the last one uncategorized
CachedOf(n) ==
    IF n = 2 ^ MaxCached
    THEN [k \in 1..(SpendingLimit + 1) |-> CachedTxn(<<116, k>>, k, Text.date_jan, Some(Text.Cafe), None, IF k > SpendingLimit THEN None ELSE Some(Text.food), None)]
    ELSE SelectSeq(SubSeq(CachedPool, 1, MaxCached), LAMBDA t : \E k \in 1..MaxCached : CachedPool[k] = t /\ (n \div (2 ^ (k - 1))) % 2 = 1)

\* the calls of the query operations
QueryInputs ==
    { [fn |-> "get_transactions", cached |-> n,
       args |-> [NoArgs EXCEPT !.start_date = sd, !.end_date = ed, !.category = cat, !.merchant = mer, !.account_id = acc, !.min_amount = lo, !.max_amount = hi, !.limit = lim]] :
         n \in 0..(2 ^ MaxCached - 1), sd \in {None, Some(Text.date_jan), Some(<<>>)}, ed \in {None, Some(Text.date_jan), Some(<<>>)},
         cat \in {None, Some(Text.FOOD)}, mer \in {None, Some(Text.cafe_lower)}, acc \in {None, Some(Text.acc1)},
         lo \in {None, Some(0), Some(500)}, hi \in {None, Some(1234)}, lim \in {0, 1, 2, 1000} }
    \cup { [fn |-> "search_transactions", cached |-> n, args |-> [NoArgs EXCEPT !.query = q, !.limit = lim]] :
             n \in 0..(2 ^ MaxCached - 1), q \in {<<>>, Text.cafe_lower, Text.SHOP, Text.food}, lim \in {0, 1, 2, 50} }
    \cup { [fn |-> "get_categories", cached |-> n, args |-> NoArgs] : n \in 0..(2 ^ MaxCached - 1) }
    \cup { [fn |-> "get_spending_by_category", cached |-> n, args |-> [NoArgs EXCEPT !.start_date = sd, !.end_date = ed, !.min_amount = lo]] :
             n \in 0..(2 ^ MaxCached), sd \in {None, Some(Text.date_jan)}, ed \in {None, Some(Text.date_jan)}, lo \in {None, Some(0), Some(500)} }

InitQuery ==
    /\ dirExists = TRUE
    /\ files = <<>>
    /\ InitCommon
    /\ input \in QueryInputs
    /\ output = None

CallGetTransactions ==
    /\ input.fn = "get_transactions"
    /\ output = None
    /\ output' = Some(get_transactions(CachedOf(input.cached), input.args))
    /\ UNCHANGED <<dbvars, input>>

CallSearchTransactions ==
    /\ input.fn = "search_transactions"
    /\ output = None
    /\ output' = Some(search_transactions(CachedOf(input.cached), input.args))
    /\ UNCHANGED <<dbvars, input>>

CallGetCategories ==
    /\ input.fn = "get_categories"
    /\ output = None
    /\ output' = Some(get_categories(CachedOf(input.cached)))
    /\ UNCHANGED <<dbvars, input>>

CallGetSpending ==
    /\ input.fn = "get_spending_by_category"
    /\ output = None
    /\ output' = Some(get_spending_by_category(CachedOf(input.cached), input.args))
    /\ UNCHANGED <<dbvars, input>>

NextQuery == CallGetTransactions \/ CallSearchTransactions \/ CallGetCategories \/ CallGetSpending

SpecQuery == InitQuery /\ [][NextQuery]_vars

\* ========================================================================
\* Properties
\* ========================================================================
\* a decode_transactions call of caller c has returned its list
TxnReturned(c) == pc[c] = "store" /\ call[c].op \in TxnOps

\* a >= b for str, by the first position where they differ
StrGE(a, b) ==
    \/ /\ Len(b) <= Len(a)
       /\ \A k \in 1..Len(b) : a[k] = b[k]
    \/ \E k \in 1..Min(Len(a), Len(b)) :
         /\ a[k] > b[k]
         /\ \A j \in 1..(k - 1) : a[j] = b[j]

\* position in the candidate list of the first candidate with the key of t
FirstSeen(items, t) ==
    CHOOSE i \in 1..Len(items) :
      /\ TxnKey(items[i]) = TxnKey(t)
      /\ \A k \in 1..(i - 1) : TxnKey(items[k]) # TxnKey(t)

\* C1: the list decode_transactions returns holds no two transactions with
\* the same (display_name, amount, date) key.
C1_NoDuplicateKeys ==
    \A c \in Callers :
      TxnReturned(c) =>
        LET r == frame[c].result
        IN  \A i, j \in 1..Len(r) : i # j => TxnKey(r[i]) # TxnKey(r[j])

\* C1 witness: a decode over two files has returned, and the candidates of
\* one key came from overlapping anchors of one file and from another file.
C1_Witness ==
    /\ TxnReturned(1)
    /\ Len(frame[1].ldb_files) = 2
    /\ \E i, j, k \in 1..Len(frame[1].items) :
         /\ i < j /\ j < k
         /\ TxnKey(frame[1].items[i]) = TxnKey(frame[1].items[j])
         /\ TxnKey(frame[1].items[j]) = TxnKey(frame[1].items[k])
    /\ frame[1].result # <<>>

\* C2: the list decode_transactions returns is non-increasing by date: each
\* element's date string is >= the date string of the element after it.
C2_SortedByDateDescending ==
    \A c \in Callers :
      TxnReturned(c) =>
        LET r == frame[c].result
        IN  \A i \in 1..(Len(r) - 1) : StrGE(r[i].date, r[i + 1].date)

\* C2 witness: a returned list of two dates whose candidates were met in
\* ascending date order.
C2_Witness ==
    /\ TxnReturned(1)
    /\ Len(frame[1].result) >= 2
    /\ frame[1].result[1].date # frame[1].result[Len(frame[1].result)].date
    /\ \E i \in 1..(Len(frame[1].items) - 1) :
         /\ StrGE(frame[1].items[i + 1].date, frame[1].items[i].date)
         /\ frame[1].items[i + 1].date # frame[1].items[i].date

\* C3: every element of the returned list is the first candidate met with
\* its key, every key met is kept, and two returned transactions with equal
\* dates stand in the order in which they were first met.
C3_FirstKeptAndStable ==
    \A c \in Callers :
      TxnReturned(c) =>
        LET r == frame[c].result
            items == frame[c].items
        IN  /\ \A i \in 1..Len(r) :
                 /\ \E k \in 1..Len(items) : TxnKey(items[k]) = TxnKey(r[i])
                 /\ r[i] = items[FirstSeen(items, r[i])]
            /\ \A k \in 1..Len(items) :
                 \E i \in 1..Len(r) : TxnKey(r[i]) = TxnKey(items[k])
            /\ \A i, j \in 1..Len(r) :
                 (i < j /\ r[i].date = r[j].date) =>
                   FirstSeen(items, r[i]) < FirstSeen(items, r[j])

\* C3 witness: a key was met twice with different transaction ids, and two
\* transactions of one date were returned.
C3_Witness ==
    /\ TxnReturned(1)
    /\ \E i, j \in 1..Len(frame[1].items) :
         /\ i < j
         /\ TxnKey(frame[1].items[i]) = TxnKey(frame[1].items[j])
         /\ frame[1].items[i] # frame[1].items[j]
    /\ \E i, j \in 1..Len(frame[1].result) :
         i < j /\ frame[1].result[i].date = frame[1].result[j].date

InScan(c) == pc[c] \in {"txn_scan", "acc_scan"}

\* C4: every pass of the while loop of decode_transactions and of
\* decode_accounts that finds an anchor leaves the search cursor strictly
\* greater than before and within the buffer, whatever the pass does after.
C4_CursorAdvances ==
    [][\A c \in Callers :
         (InScan(c) /\ pc'[c] = pc[c] /\ frame'[c] # frame[c]) =>
           /\ frame'[c].search_pos > frame[c].search_pos
           /\ frame'[c].search_pos = frame'[c].idx + 1
           /\ frame'[c].search_pos <= Len(Data(c))]_vars

\* C4 witness: a pass was abandoned early (an amount of zero) at an anchor
\* past the start of the buffer, and the cursor stands one past the anchor.
C4_Witness ==
    /\ pc[1] = "txn_scan"
    /\ frame[1].idx > 0
    /\ ~frame[1].carved
    /\ frame[1].search_pos = frame[1].idx + 1

\* C5: no failure of a single file makes a decode fail: the only error a
\* decode raises is the not-found error of a missing directory.
C5_OnlyMissingDirectoryIsFatal ==
    \A c \in Callers :
      ret[c].status = "error" =>
        (ret[c].value = "FileNotFoundError" /\ ~dirExists)

\* C6: a decode that raised the not-found error enumerated nothing, opened
\* nothing and built nothing; and with the directory missing no decode gets
\* past the existence test.
C6_NotFoundBeforeAnyWork ==
    \A c \in Callers :
      /\ (ret[c].status = "error" /\ ret[c].value = "FileNotFoundError") =>
           /\ ~dirExists
           /\ ~frame[c].globbed
           /\ frame[c].opened = 0
           /\ frame[c].items = <<>>
           /\ frame[c].result = <<>>
           /\ cache_transactions = None /\ cache_accounts = None
      /\ ~dirExists => pc[c] \in {"idle", "txn_enter", "acc_enter"}

\* C6 witness: decode_accounts was called on a missing directory and raised.
C6_Witness ==
    /\ ~dirExists
    /\ call[1].op = "get_accounts"
    /\ ret[1].status = "error"

\* C7: with one caller, decode_transactions has completed exactly once when
\* the transaction cache is populated (or about to be stored) and never
\* otherwise, no decode of transactions runs while the cache is populated;
\* the same for decode_accounts and the account cache.
C7_DecodedAtMostOnce ==
    /\ decodes.txn =
         (IF cache_transactions # None \/ TxnReturned(1) THEN 1 ELSE 0)
    /\ decodes.acc =
         (IF cache_accounts # None \/ (pc[1] = "store" /\ call[1].op \notin TxnOps)
          THEN 1 ELSE 0)
    /\ cache_transactions # None => pc[1] \notin {"txn_enter", "txn_files", "txn_scan"}
    /\ cache_accounts # None => pc[1] \notin {"acc_enter", "acc_files", "acc_scan"}
    /\ (pc[1] = "respond" /\ call[1].op \in TxnOps) => cache_transactions # None
    /\ (pc[1] = "respond" /\ call[1].op \notin TxnOps) => cache_accounts # None

\* C7 witness: a later call of another operation is answered from the
\* cache: it is about to respond and has run no decode step.
C7_Witness ==
    /\ pc[1] = "respond"
    /\ call[1].op = "get_categories"
    /\ frame[1] = NoFrame
    /\ decodes.txn = 1
    /\ cache_transactions # None /\ cache_transactions[1] # <<>>

\* C8: with callers running concurrently, the decoder runs at most once for
\* each collection.
C8_DecoderRunsOnce ==
    decodes.txn <= 1 /\ decodes.acc <= 1

\* C9: the window carved for an anchor at idx in a buffer of n bytes is
\* [max(0, idx - R), min(n, idx + R)) with R = 1500 for transactions and
\* 1000 for accounts, and 0 <= start <= idx < end <= n.
C9_WindowClamped ==
    \A c \in Callers :
      (InScan(c) /\ frame[c].idx >= 0 /\ frame[c].carved) =>
        LET n == Len(Data(c))
            idx == frame[c].idx
            R == IF pc[c] = "txn_scan" THEN 1500 ELSE 1000
            start == frame[c].record_start
            end == frame[c].record_end
        IN  /\ start = (IF idx > R THEN idx - R ELSE 0)
            /\ end = (IF idx + R < n THEN idx + R ELSE n)
            /\ 0 <= start /\ start <= idx /\ idx < end /\ end <= n

\* C9 witness: an account anchor further than the radius from the start of
\* the file and closer than the radius to its end: the window is cut at the
\* end of the buffer only.
C9_Witness ==
    /\ pc[1] = "acc_scan"
    /\ frame[1].carved
    /\ frame[1].idx > 1000
    /\ frame[1].record_start = frame[1].idx - 1000
    /\ frame[1].record_end = Len(Data(1))
    /\ frame[1].record_end < frame[1].idx + 1000

\* value of the base-128 groups data[from..to], least significant first
RECURSIVE GroupSum(_, _, _)
GroupSum(data, from, to) ==
    IF from > to THEN 0
    ELSE (At(data, from) % 128) + 128 * GroupSum(data, from + 1, to)

\* C10: when some byte at or after the offset has its high bit clear,
\* decode_varint returns the sum of (byte_k & 0x7F) << 7k over the bytes up
\* to the first such byte, and the offset just past it; decoding the
\* base-128 encoding of n gives n and the length of the encoding.
C10_VarintValue ==
    output # None =>
      LET data == input.data
          pos == input.pos
          stops == {k \in pos..(Len(data) - 1) : At(data, k) < 128}
      IN  /\ stops # {} =>
                LET t == CHOOSE k \in stops : \A m \in stops : k <= m
                IN  output[1] = <<GroupSum(data, pos, t), t + 1>>
          /\ input.fn = "round_trip" =>
                output[1] = <<input.n, Len(input.data)>>

\* C10 witness: a three-byte varint was decoded from a round trip.
C10_Witness ==
    /\ output # None
    /\ input.fn = "round_trip"
    /\ Len(input.data) = 3
    /\ output[1][1] = 16384

\* C11: decode_varint returns for every buffer and offset; when no byte at
\* or after the offset has its high bit clear it returns the value of the
\* groups read together with len(buffer), and (0, offset) when the offset is
\* at or past the end of the buffer.
C11_VarintExhausted ==
    output # None =>
      LET data == input.data
          pos == input.pos
      IN  /\ pos >= Len(data) => output[1] = <<0, pos>>
          /\ (pos < Len(data) /\ \A k \in pos..(Len(data) - 1) : At(data, k) >= 128) =>
                output[1] = <<GroupSum(data, pos, Len(data) - 1), Len(data)>>
          /\ output[1][2] >= pos
          /\ output[1][2] <= Max(pos, Len(data))

\* C11 witness: a buffer that ends inside a varint of two groups, read from
\* an offset past its first byte, gave a non-zero value.
C11_Witness ==
    /\ output # None
    /\ input.pos = 1
    /\ Len(input.data) = 3
    /\ \A k \in 1..2 : At(input.data, k) >= 128
    /\ output[1][1] > 127
    /\ output[1][2] = 3

\* C12: extract_string_value returns not-found when the field name is
\* absent; otherwise it returns the value of the lowest offset, among those
\* the scan visits in the 50 bytes after the first occurrence, whose
\* candidate (tag 8a 01, length byte in 1..99, bytes that decode as UTF-8
\* to printable text) passes; failed candidates before it do not matter,
\* and not-found is returned only when no candidate passes.
C12_StringScan ==
    (output # None /\ input.fn = "extract_string_value") =>
      LET data == input.data
          pat == input.field_name
          occ == {k \in 0..(Len(data) - Len(pat)) : \A j \in 1..Len(pat) : data[k + j] = pat[j]}
      IN  IF occ = {} THEN output[1] = None
          ELSE LET from == (CHOOSE k \in occ : \A m \in occ : k <= m) + Len(pat)
                   n == Min(50, Len(data) - from)
                   w(i) == data[from + i + 1]
                   text(i) == utf8_decode([j \in 1..Min(w(i + 2), n - (i + 3)) |-> w(i + 2 + j)], 1, <<>>)
                   passes(i) == /\ w(i) = 138 /\ w(i + 1) = 1
                                /\ w(i + 2) > 0 /\ w(i + 2) < 100
                                /\ text(i) # <<-1>>
                                /\ IsPrintable(text(i))
                   good == {i \in 0..(n - 4) : passes(i)}
               IN  IF good = {} THEN output[1] = None
                   ELSE output[1] = Some(text(CHOOSE i \in good : \A m \in good : i <= m))

\* C12 witness: the value of a second candidate ("ok") was returned after a
\* first candidate in the window failed.
C12_Witness ==
    /\ output # None
    /\ input.fn = "extract_string_value"
    /\ output[1] = Some(<<111, 107>>)

\* C13: a value extract_string_value returns is the UTF-8 decoding of
\* exactly the L bytes that follow the length byte L of a candidate in the
\* window after the field name.
C13_ExactLength ==
    (output # None /\ input.fn = "extract_string_value" /\ output[1] # None) =>
      LET data == input.data
          pat == input.field_name
          occ == {k \in 0..(Len(data) - Len(pat)) : \A j \in 1..Len(pat) : data[k + j] = pat[j]}
          from == (CHOOSE k \in occ : \A m \in occ : k <= m) + Len(pat)
      IN  \E p \in (from + 1)..Min(from + 50, Len(data) - 2) :
            /\ data[p] = 138 /\ data[p + 1] = 1
            /\ p + 2 + data[p + 2] <= Len(data)
            /\ output[1][1] = utf8_decode([j \in 1..data[p + 2] |-> data[p + 2 + j]], 1, <<>>)

\* C14: if a tag byte 0x19 lies in the 20-byte window that begins at the
\* start offset, the 8 bytes after it lie inside the window and the buffer,
\* and they decode to a magnitude below 10,000,000, then
\* extract_double_value returns the value of the lowest such tag.
C14_DoubleFound ==
    (output # None /\ input.fn = "extract_double_value") =>
      LET data == input.data
          start == input.start_pos
          n == Min(20, Len(data) - start)
          raw(i) == [j \in 1..8 |-> data[start + i + 1 + j]]
          expo(r) == (r[8] % 128) * 16 + (r[7] \div 16)
          below(r) == \/ expo(r) < 1046
                      \/ /\ expo(r) = 1046
                         /\ 8388608 + (r[7] % 16) * 524288 + r[6] * 2048 + r[5] * 8 + (r[4] \div 32) < 10000000
          found == {i \in 0..(n - 9) : data[start + i + 1] = 25 /\ below(raw(i))}
      IN  found # {} =>
            output[1] = Some(RoundedHundredths(raw(CHOOSE i \in found : \A m \in found : i <= m)))

\* C15: extract_double_value returns the rounded value of the lowest tag
\* 0x19 the scan visits whose 8 bytes decode to a magnitude below
\* 10,000,000; a tag with a magnitude at or above it (or not a number) is
\* passed over, and not-found is returned when no visited tag qualifies.
C15_DoubleCeiling ==
    (output # None /\ input.fn = "extract_double_value") =>
      LET data == input.data
          start == input.start_pos
          n == Min(20, Len(data) - start)
          raw(i) == [j \in 1..8 |-> data[start + i + 1 + j]]
          expo(r) == (r[8] % 128) * 16 + (r[7] \div 16)
          below(r) == \/ expo(r) < 1046
                      \/ /\ expo(r) = 1046
                         /\ 8388608 + (r[7] % 16) * 524288 + r[6] * 2048 + r[5] * 8 + (r[4] \div 32) < 10000000
          found == {i \in 0..(n - 10) : data[start + i + 1] = 25 /\ below(raw(i))}
      IN  IF found = {} THEN output[1] = None
          ELSE output[1] = Some(RoundedHundredths(raw(CHOOSE i \in found : \A m \in found : i <= m)))

\* C15 witness: a first tag followed by 1e8 was passed over and the value
\* of the second tag, 5.0, was returned.
C15_Witness ==
    /\ output # None
    /\ input.fn = "extract_double_value"
    /\ SubSeq(input.data, 3, 11) = <<25>> \o Dbl.v1e8
    /\ output[1] = Some(500)

\* C16: extract_boolean_value returns not-found when the field name is
\* absent or no tag byte 0x08 lies in the 20 bytes after its first
\* occurrence; otherwise, when the first tag in those 20 bytes has a
\* following byte inside the buffer, it returns (that byte # 0).
C16_BooleanFound ==
    (output # None /\ input.fn = "extract_boolean_value") =>
      LET data == input.data
          pat == input.field_name
          occ == {k \in 0..(Len(data) - Len(pat)) : \A j \in 1..Len(pat) : data[k + j] = pat[j]}
      IN  IF occ = {} THEN output[1] = None
          ELSE LET from == (CHOOSE k \in occ : \A m \in occ : k <= m) + Len(pat)
                   n == Min(20, Len(data) - from)
                   tags == {i \in 0..(n - 1) : data[from + i + 1] = 8}
               IN  IF tags = {} THEN output[1] = None
                   ELSE LET first == CHOOSE i \in tags : \A m \in tags : i <= m
                        IN  from + first + 2 <= Len(data) =>
                              output[1] = Some(data[from + first + 2] # 0)

\* C17: a decoded record is appended only from a window in which the
\* required fields were extracted: for a Transaction the transaction id, the
\* date and one of name / original_name; for an Account the account id and
\* one of name / official_name.  The appended record carries those values,
\* its display name is the extracted name (or else the other name), never
\* the "Unknown" fallback, and no pass of a scan raises.
C17_PresenceInvariant ==
    [][\A c \in Callers :
         /\ InScan(c) => ret'[c] = ret[c] /\ pc'[c] # "idle"
         /\ (InScan(c) /\ Len(frame'[c].items) > Len(frame[c].items)) =>
              LET record == Slice(Data(c), frame'[c].record_start, frame'[c].record_end)
                  id == extract_string_value(record, IF pc[c] = "txn_scan" THEN B.transaction_id ELSE B.account_id)
                  name == extract_string_value(record, A.name)
                  other == extract_string_value(record, IF pc[c] = "txn_scan" THEN B.original_name ELSE B.official_name)
                  date == extract_string_value(record, B.original_date)
                  r == frame'[c].items[Len(frame'[c].items)]
              IN  /\ frame'[c].carved
                  /\ id # None /\ id[1] # <<>>
                  /\ (name # None /\ name[1] # <<>>) \/ (other # None /\ other[1] # <<>>)
                  /\ r.display_name = (IF name # None /\ name[1] # <<>> THEN name[1] ELSE other[1])
                  /\ r.name = name
                  /\ IF pc[c] = "txn_scan"
                     THEN /\ date # None /\ date[1] # <<>>
                          /\ r.transaction_id = id[1]
                          /\ r.date = date[1]
                          /\ r.original_name = other
                     ELSE /\ r.account_id = id[1]
                          /\ r.official_name = other]_vars

\* C17 witness: a pass of each scan has carved a window from which the
\* record's id could not be extracted (although a name could), and nothing
\* was appended: the decode goes on with no record accepted
C17_Witness ==
    /\ InScan(1)
    /\ frame[1].carved
    /\ frame[1].items = <<>>
    /\ LET record == Slice(Data(1), frame[1].record_start, frame[1].record_end)
       IN  /\ extract_string_value(record, IF pc[1] = "txn_scan" THEN B.transaction_id ELSE B.account_id) = None
           /\ extract_string_value(record, A.name) # None
           /\ pc[1] = "txn_scan" => extract_string_value(record, B.original_date) # None
           /\ pc[1] = "acc_scan" => extract_double_value(record, Find(record, B.current_balance, 0) + BalanceValueOffset) # None

\* C18: a candidate whose construction raises (its extracted date does not
\* match the date pattern) is the only thing discarded: the pass leaves the
\* list of accepted records as it was, returns nothing to the caller and
\* stays in the same file with the cursor one past the anchor.  Every pass
\* keeps the records accepted before it and appends at most one; opening
\* the later files keeps them too, and the tail of the decode works on all
\* of them.
C18_OnlyCandidateDiscarded ==
    [][\A c \in Callers :
         /\ InScan(c) =>
              /\ Len(frame'[c].items) \in {Len(frame[c].items), Len(frame[c].items) + 1}
              /\ SubSeq(frame'[c].items, 1, Len(frame[c].items)) = frame[c].items
              /\ ret'[c] = ret[c]
         /\ (pc[c] = "txn_scan" /\ frame'[c].carved /\ frame'[c].idx # -1) =>
              LET record == Slice(Data(c), frame'[c].record_start, frame'[c].record_end)
                  id == extract_string_value(record, B.transaction_id)
                  name == extract_string_value(record, A.name)
                  other == extract_string_value(record, B.original_name)
                  date == extract_string_value(record, B.original_date)
                  amount == extract_double_value(Data(c), frame'[c].idx + AmountValueOffset)
              IN  (id # None /\ date # None /\ (name # None \/ other # None)) =>
                    IF DatePattern(date[1]) /\ AmountValid(amount[1])
                    THEN Len(frame'[c].items) = Len(frame[c].items) + 1
                    ELSE /\ frame'[c].items = frame[c].items
                         /\ pc'[c] = "txn_scan"
                         /\ frame'[c].fi = frame[c].fi
                         /\ frame'[c].search_pos = frame'[c].idx + 1
         /\ (pc[c] \in {"txn_files", "acc_files"} /\ pc'[c] \in {"txn_scan", "acc_scan", "txn_files", "acc_files"}) =>
              frame'[c].items = frame[c].items
         /\ (pc[c] = "txn_files" /\ pc'[c] = "store") =>
              frame'[c].result = TxnTail(frame[c].items)
         /\ (pc[c] = "acc_files" /\ pc'[c] = "store") =>
              frame'[c].result = AccTail(frame[c].items)]_vars

\* C18 witness: the second file of the directory begins with a document
\* whose date fails the pattern; the decode has finished with the records
\* accepted from the first file and the record that follows the failed
\* candidate in the second file
C18_Witness ==
    /\ TxnReturned(1)
    /\ Len(frame[1].ldb_files) = 2
    /\ Len(frame[1].items) = 3
    /\ frame[1].items[3].transaction_id = Text.t3
    /\ LET data == FileOf(files[frame[1].ldb_files[2]]).data
           idx == Find(data, A.amount, 0)
           record == Slice(data, RecordStart(idx, TxnRadius), RecordEnd(data, idx, TxnRadius))
           date == extract_string_value(record, B.original_date)
       IN  /\ extract_string_value(record, B.transaction_id) # None
           /\ extract_string_value(record, B.original_name) # None
           /\ date # None
           /\ ~DatePattern(date[1])

\* C19: every Transaction decode_transactions returns (and every one the
\* database then keeps) has an amount that is not zero and of magnitude at
\* most 10,000,000 (1,000,000,000 hundredths), and a date of ten
\* characters: four decimal digits, a hyphen, two decimal digits, a hyphen,
\* two decimal digits.
C19_AmountAndDate ==
    \A c \in Callers :
        LET returned == IF TxnReturned(c) THEN frame[c].result ELSE <<>>
            kept == IF cache_transactions # None THEN cache_transactions[1] ELSE <<>>
            all == returned \o kept
        IN  \A k \in 1..Len(all) :
                /\ all[k].amount # 0
                /\ all[k].amount <= 1000000000
                /\ all[k].amount >= -1000000000
                /\ Len(all[k].date) = 10
                /\ all[k].date[5] = 45
                /\ all[k].date[8] = 45
                /\ \A i \in {1, 2, 3, 4, 6, 7, 9, 10} : IsDigitCp(all[k].date[i])

\* C19 witness: the decode returns transactions from a directory in
\* which one file holds an amount anchor of value zero and another begins
\* with a document whose date is not of that form
C19_Witness ==
    /\ TxnReturned(1)
    /\ Len(frame[1].result) >= 2
    /\ \E k \in 1..Len(frame[1].ldb_files) :
         LET data == FileOf(files[frame[1].ldb_files[k]]).data
             idx == Find(data, DblField(B.amount, Dbl.v0), 0)
         IN  idx # -1 /\ extract_double_value(data, idx + AmountValueOffset) = Some(0)
    /\ \E k \in 1..Len(frame[1].ldb_files) :
         LET data == FileOf(files[frame[1].ldb_files[k]]).data
             date == extract_string_value(data, B.original_date)
         IN  date # None /\ Len(date[1]) # 10

\* C20: the list decode_accounts returns holds no two Accounts with the
\* same (display_name, mask); each returned Account is the first
\* encountered with its key, every encountered key is returned, and the
\* returned Accounts stand in the order in which their keys were first
\* encountered.
C20_AccountsFirstKeptInOrder ==
    \A c \in Callers :
        (pc[c] = "store" /\ call[c].op = "get_accounts") =>
            LET items == frame[c].items
                r == frame[c].result
                key(a) == <<a.display_name, a.mask>>
                first(a) == CHOOSE m \in 1..Len(items) : key(items[m]) = key(a) /\ \A m2 \in 1..(m - 1) : key(items[m2]) # key(a)
            IN  /\ \A i, j \in 1..Len(r) : i # j => key(r[i]) # key(r[j])
                /\ \A m \in 1..Len(items) : \E i \in 1..Len(r) : key(r[i]) = key(items[m])
                /\ \A i \in 1..Len(r) :
                     /\ \E m \in 1..Len(items) : key(items[m]) = key(r[i])
                     /\ r[i] = items[first(r[i])]
                /\ \A i, j \in 1..Len(r) : i < j => first(r[i]) < first(r[j])

\* C20 witness: four Accounts were encountered, of two keys; the returned
\* list has the two first-encountered ones, in an order that is not the
\* order of their names, and a dropped Account differs from the kept one of
\* its key
C20_Witness ==
    /\ pc[1] = "store"
    /\ call[1].op = "get_accounts"
    /\ Len(frame[1].items) = 4
    /\ Len(frame[1].result) = 2
    /\ frame[1].result[1].display_name = Text.Savings
    /\ frame[1].result[2].display_name = Text.Checking
    /\ AccKey(frame[1].items[4]) = AccKey(frame[1].result[1])
    /\ frame[1].items[4] # frame[1].result[1]

\* C21: when the database directory does not exist, a query made through
\* CopilotDatabase fails, and the exception it fails with is
\* DatabaseNotFoundError.
C21_DatabaseNotFoundError ==
    \A c \in Callers :
        (~dirExists /\ call[c].op # "none" /\ pc[c] = "idle") =>
            /\ ret[c].status = "error"
            /\ ret[c].value = "DatabaseNotFoundError"

\* C22: is_available() is true exactly when the path exists and holds at
\* least one *.ldb file.  call_tool records that value at its start; a
\* handler (and so a decode) runs only in a call that found it true; a call
\* that found it false answers "Database not available" at once, whatever
\* the tool name, and touches nothing of the database.
C22_HandlerOnlyIfAvailable ==
    [][/\ is_available <=> (dirExists /\ \E k \in 1..Len(files) : FileOf(files[k]).ldb)
       /\ (input' # input) =>
            /\ input'.fn = "call_tool"
            /\ input'.available <=> (dirExists /\ \E k \in 1..Len(files) : FileOf(files[k]).ldb)
            /\ ~input'.available =>
                 /\ output' = Some([kind |-> "not_available", value |-> "Database not available"])
                 /\ UNCHANGED <<dbvars>>
            /\ input'.available => output' # Some([kind |-> "not_available", value |-> "Database not available"])
       /\ (pc'[1] # "idle" \/ decodes' # decodes \/ frame' # frame \/ ret' # ret \/ cache_transactions' # cache_transactions \/ cache_accounts' # cache_accounts) =>
            (input'.fn = "call_tool" /\ input'.available)]_vars

\* C22 witness: the path exists but holds no table file (a manifest only);
\* a call of a known tool was answered with the text, and no decode has
\* ever started
C22_Witness ==
    /\ dirExists
    /\ files = <<6>>
    /\ input.fn = "call_tool"
    /\ input.name = "get_accounts"
    /\ ~input.available
    /\ output = Some([kind |-> "not_available", value |-> "Database not available"])
    /\ decodes = [txn |-> 0, acc |-> 0]
    /\ frame[1] = NoFrame

\* C29: a query whose decode fails because the directory is missing stores
\* nothing: the step that raises leaves both caches as they were, a cache
\* only ever receives the complete list a finished decode returned, and a
\* query that finds its cache unpopulated starts the decode again; with the
\* directory in existence that decode goes on to the files, and the query
\* ends by returning a result.
C29_FailedDecodeStoresNothing ==
    [][/\ (ret[1].status # "error" /\ ret'[1].status = "error") =>
            /\ ret'[1].value = "FileNotFoundError"
            /\ ~dirExists
            /\ cache_transactions' = cache_transactions
            /\ cache_accounts' = cache_accounts
            /\ (IF call[1].op = "get_accounts" THEN cache_accounts' ELSE cache_transactions') = <<>>
       /\ (cache_transactions' # cache_transactions) =>
            /\ pc[1] = "store"
            /\ call[1].op # "get_accounts"
            /\ cache_transactions' = <<TxnTail(frame[1].items)>>
            /\ frame[1].fi = Len(Glob(files))
            /\ cache_accounts' = cache_accounts
       /\ (cache_accounts' # cache_accounts) =>
            /\ pc[1] = "store"
            /\ call[1].op = "get_accounts"
            /\ cache_accounts' = <<AccTail(frame[1].items)>>
            /\ frame[1].fi = Len(Glob(files))
            /\ cache_transactions' = cache_transactions
       /\ (pc[1] = "idle" /\ pc'[1] # "idle") =>
            IF call'[1].op = "get_accounts"
            THEN (cache_accounts = <<>>) <=> (pc'[1] = "acc_enter")
            ELSE (cache_transactions = <<>>) <=> (pc'[1] = "txn_enter")
       /\ (pc[1] \in {"txn_enter", "acc_enter"} /\ dirExists /\ pc'[1] # pc[1]) =>
         /\ pc'[1] \in {"txn_files", "acc_files"}
         /\ ret'[1].status = "none"
       /\ (pc[1] = "respond" /\ pc'[1] # pc[1]) => ret'[1].status = "ok"]_vars

\* C29 witness: the last query failed for want of the directory, the
\* directory has since come into existence with table files in it, and both
\* caches are still unpopulated
C29_Witness ==
    /\ ret[1].status = "error"
    /\ ret[1].value = "FileNotFoundError"
    /\ pc[1] = "idle"
    /\ dirExists
    /\ Glob(files) # <<>>
    /\ cache_transactions = None
    /\ cache_accounts = None

\* C23: with a limit that does not cut, get_transactions returns exactly
\* the transactions of the cached list, in cached order, that satisfy every
\* supplied filter at once: start_date <= date <= end_date, min_amount <=
\* amount <= max_amount, account_id equal, category a case-insensitive
\* substring of category_id, merchant a case-insensitive substring of
\* display_name.  (A string filter is supplied when it is given and not
\* empty.)
C23_FiltersConjunction ==
    (output # None /\ input.fn = "get_transactions" /\ input.args.limit >= Len(CachedOf(input.cached))) =>
        LET a == input.args
            supplied(o) == o # <<>> /\ o[1] # <<>>
            low(cp) == IF cp >= 65 /\ cp <= 90 THEN cp + 32 ELSE cp
            within(x, y) == \E i \in 0..(Len(y) - Len(x)) : \A j \in 1..Len(x) : low(y[i + j]) = low(x[j])
            keep(t) ==
                /\ supplied(a.start_date) => StrGE(t.date, a.start_date[1])
                /\ supplied(a.end_date) => StrGE(a.end_date[1], t.date)
                /\ a.min_amount # <<>> => t.amount >= a.min_amount[1]
                /\ a.max_amount # <<>> => t.amount <= a.max_amount[1]
                /\ supplied(a.account_id) => t.account_id = a.account_id
                /\ supplied(a.category) => (t.category_id # <<>> /\ within(a.category[1], t.category_id[1]))
                /\ supplied(a.merchant) => within(a.merchant[1], t.display_name)
        IN  output[1] = SelectSeq(CachedOf(input.cached), keep)

\* C23 witness: five filters at once on the list of the first four
\* transactions; the one returned has the end date and the maximum amount
\* themselves, category_id "food" for the category "FOOD" and display name
\* "CAFE 12" for the merchant "cafe"
C23_Witness ==
    /\ output # None
    /\ input.fn = "get_transactions"
    /\ input.cached = 15
    /\ input.args.limit = 1000
    /\ input.args.end_date = Some(Text.date_nyd) \/ input.args.end_date = Some(Text.date_jan)
    /\ input.args.category = Some(Text.FOOD)
    /\ input.args.merchant = Some(Text.cafe_lower)
    /\ input.args.min_amount = Some(0)
    /\ input.args.max_amount = Some(1234)
    /\ Len(output[1]) = 1
    /\ output[1][1].display_name = Text.CAFE12
    /\ output[1][1].amount = 1234

\* C24: for a limit >= 0, get_transactions and search_transactions return
\* at most limit transactions, and they are the first limit elements of the
\* filtered sequence (the result of the same call with a limit that does
\* not cut), all of it when it is shorter than limit.
C24_LimitIsPrefix ==
    (output # None /\ input.fn \in {"get_transactions", "search_transactions"}) =>
        LET cached == CachedOf(input.cached)
            uncut == [input.args EXCEPT !.limit = Len(cached)]
            filtered == IF input.fn = "get_transactions"
                        THEN get_transactions(cached, uncut)
                        ELSE search_transactions(cached, uncut)
        IN  /\ input.args.limit >= 0
            /\ Len(output[1]) <= input.args.limit
            /\ Len(output[1]) = Min(input.args.limit, Len(filtered))
            /\ \A k \in 1..Len(output[1]) : output[1][k] = filtered[k]

\* C24 witness: a search for "cafe" with limit 1 over four transactions of
\* which two match ("Cafe" and "CAFE 12"); only the first match is returned
C24_Witness ==
    /\ output # None
    /\ input.fn = "search_transactions"
    /\ input.cached = 15
    /\ input.args.query = Text.cafe_lower
    /\ input.args.limit = 1
    /\ output[1] = <<CachedPool[1]>>
    /\ StrIn(Text.cafe_lower, Lower(CachedPool[4].display_name))

\* C26: get_categories returns one Category for each distinct non-empty
\* category_id among the cached transactions and no other, no category_id
\* twice, in the order in which the identifiers first occur in the cached
\* list, each with name equal to its identifier.
C26_DistinctCategories ==
    (output # None /\ input.fn = "get_categories") =>
        LET cached == CachedOf(input.cached)
            out == output[1]
            ids == {cached[k].category_id[1] : k \in {j \in 1..Len(cached) : cached[j].category_id # <<>> /\ cached[j].category_id # << <<>> >>}}
            first(id) == CHOOSE k \in 1..Len(cached) : /\ cached[k].category_id = <<id>>
                                                        /\ \A j \in 1..(k - 1) : cached[j].category_id # <<id>>
        IN  /\ {out[k].category_id : k \in 1..Len(out)} = ids
            /\ Len(out) = Cardinality(ids)
            /\ \A i, j \in 1..Len(out) : i < j => first(out[i].category_id) < first(out[j].category_id)
            /\ \A k \in 1..Len(out) : out[k].name = out[k].category_id

\* C26 witness: "food" occurs twice with "Rent" and an uncategorized
\* transaction in between; the answer is food, Rent
C26_Witness ==
    /\ output # None
    /\ input.fn = "get_categories"
    /\ input.cached = 15
    /\ CachedPool[1].category_id = CachedPool[4].category_id
    /\ CachedPool[2].category_id = <<>>
    /\ output[1] = << [category_id |-> Text.food, name |-> Text.food], [category_id |-> Text.Rent, name |-> Text.Rent] >>

\* C30: get_spending_by_category counts every cached transaction that lies
\* in the requested date range and has amount > 0 and amount >= min_amount
\* exactly once, in the category of its category_id or in "Uncategorized",
\* however many transactions match: the transaction_count of each returned
\* category is the number of such transactions of that category, it is at
\* least 1, and the counts add up to the number of such transactions.
C30_EveryExpenseCountedOnce ==
    (output # None /\ input.fn = "get_spending_by_category") =>
        LET a == input.args
            cached == CachedOf(input.cached)
            matching == SelectSeq(cached, LAMBDA t :
                            /\ a.start_date # <<>> => StrGE(t.date, a.start_date[1])
                            /\ a.end_date # <<>> => StrGE(a.end_date[1], t.date)
                            /\ t.amount > 0
                            /\ a.min_amount # <<>> => t.amount >= a.min_amount[1])
            cats == output[1].categories
        IN  /\ \A k \in 1..Len(cats) :
                 /\ cats[k].transaction_count >= 1
                 /\ cats[k].transaction_count = Len(SelectSeq(matching, LAMBDA t : CategoryOf(t) = cats[k].category))
            /\ Sum([k \in 1..Len(cats) |-> cats[k].transaction_count], 1, Len(cats)) = Len(matching)

\* C25: the query operations never modify a populated cache: in every step
\* a cache that holds a list holds the same list, in the same order,
\* afterwards; and the result a call has returned is the value of the
\* operation on the cached list and the call's arguments, so that two calls
\* with equal arguments return equal results.
C25_QueriesLeaveCachesAlone ==
    [][/\ cache_transactions # None => cache_transactions' = cache_transactions
       /\ cache_accounts # None => cache_accounts' = cache_accounts
       /\ ret'[1].status = "ok" => ret'[1].value = Answer(call[1])']_vars

\* C25 witness: a search answered from the populated cache without a decode
\* (the frame of the call is untouched); it returned fewer transactions than
\* the cache holds, both caches are populated
C25_Witness ==
    /\ pc[1] = "idle"
    /\ ret[1].status = "ok"
    /\ frame[1] = NoFrame
    /\ call[1].op = "search_transactions"
    /\ cache_transactions # None
    /\ cache_accounts # None
    /\ Len(ret[1].value) >= 1
    /\ Len(ret[1].value) < Len(cache_transactions[1])

\* C27: in decode_accounts, the balance of the candidate built for the
\* current_balance occurrence at offset idx is the double found in the 20
\* bytes that follow that same occurrence (from idx + 15 on), also when
\* another current_balance occurrence lies within the 1000 bytes before idx.
C27_BalanceOfOwnAnchor ==
    [][(/\ pc[1] = "acc_scan"
        /\ pc'[1] = "acc_scan"
        /\ frame'[1].idx # -1
        /\ Len(frame'[1].items) = Len(frame[1].items) + 1)
       => LET own == extract_double_value(Data(1), frame'[1].idx + BalanceValueOffset)
          IN  /\ own # None
              /\ frame'[1].items[Len(frame'[1].items)].current_balance = own[1]]_vars

\* C28: the result of decode_transactions depends only on the set of table
\* files and their contents, not on the order in which the directory
\* enumeration yields them: the list a decode returns equals the list the
\* decode of the same files enumerated in the opposite order returns.
C28_EnumerationOrderIrrelevant ==
    (pc[1] = "store" /\ call[1].op \in TxnOps) =>
        LET reversed == [k \in 1..Len(files) |-> files[Len(files) + 1 - k]]
        IN  frame[1].result = decode_transactions(reversed, Glob(reversed), <<>>)

====
